---------------------------- MODULE Spec2Model ----------------------------
(***************************************************************************)
(* Model of pykrita/style_sheet_loader/style_sheet_loader.py: the colour   *)
(* expression language, the colour arithmetic, the two rewrite passes of   *)
(* StyleSheetLoader and the recoloured-image cache of SVGProcessor.        *)
(*                                                                         *)
(* Numbers.  A Python int is the 1-tuple <<n>>; a Python float is the      *)
(* 2-tuple <<n, d>>, the exact fraction n/d in lowest terms with d > 0;    *)
(* <<1,0>>, <<-1,0>> and <<0,0>> are inf, -inf and nan.  Floating-point    *)
(* rounding is not modelled: arithmetic is exact.  None is <<>>, and a     *)
(* raised exception is the 7-tuple Err.  Colour channels, which the code   *)
(* always holds as ints, are plain integers.                               *)
(***************************************************************************)
EXTENDS Integers, Sequences, FiniteSets, TLC

None == << >>
Err == <<0, 0, 0, 0, 0, 0, 0>>
IsErr(x) == Len(x) = 7
IsNone(x) == Len(x) = 0

I(n) == <<n>>
IsInt(x) == Len(x) = 1
NaN == <<0, 0>>
Inf == <<1, 0>>
NegInf == <<-1, 0>>

Abs(n) == IF n < 0 THEN -n ELSE n
Sign(n) == IF n < 0 THEN -1 ELSE IF n > 0 THEN 1 ELSE 0

\* The element of a one-element set.  A value an assignment of the source
\* computes is written v \in {expression}: it is computed there, once, before
\* the statements that use it.
The(S) == CHOOSE x \in S : TRUE

RECURSIVE Gcd(_, _)
Gcd(a, b) == IF b = 0 THEN a ELSE Gcd(b, a % b)

\* The float n/d in lowest terms; d = 0 gives inf, -inf or nan.
Q(n, d) ==
    IF d = 0 THEN <<Sign(n), 0>>
    ELSE LET g == Gcd(Abs(n), Abs(d))
             s == IF d < 0 THEN -1 ELSE 1
         IN  <<(s * n) \div g, (s * d) \div g>>

\* float(x)
F(x) == IF IsInt(x) THEN <<x[1], 1>> ELSE x
IsNaN(x) == F(x) = NaN
IsFinite(x) == F(x)[2] # 0

FNeg(x) == <<-F(x)[1], F(x)[2]>>

FAdd(x, y) ==
    LET a == F(x)
        b == F(y)
        g == Gcd(a[2], b[2])                \* the common part of the denominators
    IN  IF IsFinite(a) /\ IsFinite(b)
        THEN Q(a[1] * (b[2] \div g) + b[1] * (a[2] \div g), (a[2] \div g) * b[2])
        ELSE IF IsNaN(a) \/ IsNaN(b) THEN NaN
        ELSE IF IsFinite(a) THEN b
        ELSE IF IsFinite(b) THEN a
        ELSE IF a = b THEN a ELSE NaN

FSub(x, y) == FAdd(x, FNeg(y))

FMul(x, y) ==
    LET a == F(x)
        b == F(y)
        g == Gcd(Abs(a[1]), b[2])           \* cancelled before multiplying
        k == Gcd(Abs(b[1]), a[2])
    IN  IF IsFinite(a) /\ IsFinite(b)
        THEN Q((a[1] \div g) * (b[1] \div k), (a[2] \div k) * (b[2] \div g))
        ELSE IF IsNaN(a) \/ IsNaN(b) THEN NaN
        ELSE <<Sign(a[1]) * Sign(b[1]), 0>>

\* x / y for a finite, non-zero y.
FDiv(x, y) ==
    LET a == F(x)
        b == F(y)
    IN  IF IsNaN(a) THEN NaN
        ELSE IF ~IsFinite(a) THEN <<a[1] * Sign(b[1]), 0>>
        ELSE FMul(a, Q(b[2], b[1]))

\* Comparisons: every comparison with nan is false.
FLt(x, y) ==
    LET a == F(x)
        b == F(y)
    IN  IF IsNaN(a) \/ IsNaN(b) THEN FALSE
        ELSE IF IsFinite(a) /\ IsFinite(b)
        THEN a[1] * (b[2] \div Gcd(a[2], b[2])) < b[1] * (a[2] \div Gcd(a[2], b[2]))
        ELSE (IF IsFinite(a) THEN 0 ELSE a[1]) < (IF IsFinite(b) THEN 0 ELSE b[1])

FGt(x, y) == FLt(y, x)
FEq(x, y) == ~IsNaN(x) /\ ~IsNaN(y) /\ F(x) = F(y)
FLe(x, y) == FLt(x, y) \/ FEq(x, y)
FGe(x, y) == FLe(y, x)
FAbs(x) == IF IsInt(x) THEN I(Abs(x[1])) ELSE <<Abs(x[1]), x[2]>>

\* Python's min(a, b) and max(a, b): the first argument unless the second
\* compares smaller (larger).
PyMin(a, b) == IF FLt(b, a) THEN b ELSE a
PyMax(a, b) == IF FGt(b, a) THEN b ELSE a

\* int(x): truncation toward zero; int(inf) and int(nan) raise.
PyInt(x) ==
    IF IsInt(x) THEN x
    ELSE IF ~IsFinite(x) THEN Err
    ELSE IF x[1] >= 0 THEN I(x[1] \div x[2]) ELSE I(-((-x[1]) \div x[2]))

\* round(x): to the nearest integer, ties to the even one; raises on inf, nan.
\* The fractional part of n/d is (n % d)/d, which is compared with 1/2.
PyRound(x) ==
    IF IsInt(x) THEN x
    ELSE IF ~IsFinite(x) THEN Err
    ELSE IF 2 * (x[1] % x[2]) < x[2] THEN I(x[1] \div x[2])
    ELSE IF 2 * (x[1] % x[2]) > x[2] THEN I(x[1] \div x[2] + 1)
    ELSE IF (x[1] \div x[2]) % 2 = 0 THEN I(x[1] \div x[2])
    ELSE I(x[1] \div x[2] + 1)

\* x % m for a positive int m: the result has the sign of m; int % int is an
\* int, anything else a float; inf % m and nan % m are nan.  For a float
\* n/d it is n/d - m * floor(n/(d * m)), that is (n % (d * m))/d.
PyMod(x, m) ==
    IF IsInt(x) THEN I(x[1] % m)
    ELSE IF ~IsFinite(x) THEN NaN
    ELSE Q(x[1] % (x[2] * m), x[2])


(***************************************************************************)
(* Colour arithmetic (module-level functions of the source).               *)
(***************************************************************************)
Max3(a, b, c) == IF a >= b /\ a >= c THEN a ELSE IF b >= c THEN b ELSE c
Min3(a, b, c) == IF a <= b /\ a <= c THEN a ELSE IF b <= c THEN b ELSE c

\* rgb_to_hsl(r, g, b) -> <<h, s * 100, l * 100>>.  The channels are divided
\* by 255 first; the quotients below are the same fractions.  The function
\* is written as a chain of operators, one per group of assignments, each
\* applied to the values assigned before it.
\* A faulty line 77, which returns whole numbers.
rgb_to_hsl_whole(h, s, l) ==
    <<PyInt(h), PyInt(FMul(F(s), I(100))), PyInt(FMul(l, I(100)))>>

rgb_to_hsl_result(h, s, l) ==                                   \* line 77
    <<h, IF IsInt(s) THEN I(0) ELSE FMul(s, I(100)), FMul(l, I(100))>>

rgb_to_hsl_hue(r, g, b, cmax, delta, l) ==                      \* lines 62-75
    The({rgb_to_hsl_result(h, s, l) :
            h \in {IF FEq(delta, I(0)) THEN I(0)
                   ELSE IF cmax = r THEN FMul(I(60), PyMod(FDiv(FSub(g, b), delta), 6))
                   ELSE IF cmax = g THEN FMul(I(60), FAdd(FDiv(FSub(b, r), delta), I(2)))
                   ELSE FMul(I(60), FAdd(FDiv(FSub(r, g), delta), I(4)))},
            s \in {IF FEq(delta, I(0)) THEN I(0)
                   ELSE FDiv(delta, FSub(I(1), FAbs(FSub(FMul(I(2), l), I(1)))))}})

rgb_to_hsl_delta(r, g, b, cmax, cmin) ==                        \* lines 59, 72
    The({rgb_to_hsl_hue(r, g, b, cmax, delta, l) :
            delta \in {FSub(cmax, cmin)}, l \in {FDiv(FAdd(cmax, cmin), I(2))}})

rgb_to_hsl(rgb) ==                                              \* lines 56-58
    The({rgb_to_hsl_delta(r, g, b, cmax, cmin) :
            r \in {Q(rgb[1], 255)}, g \in {Q(rgb[2], 255)}, b \in {Q(rgb[3], 255)},
            cmax \in {Q(Max3(rgb[1], rgb[2], rgb[3]), 255)},
            cmin \in {Q(Min3(rgb[1], rgb[2], rgb[3]), 255)}})

\* normalize_hue(h): int(h % 360 if h >= 0 else 360 + (h % 360)).
normalize_hue(h) ==
    PyInt(IF FGe(h, I(0)) THEN PyMod(h, 360) ELSE FAdd(I(360), PyMod(h, 360)))

\* clip_value(value, min_val, max_val): the float value, or the bound as it
\* was passed (an int); max_val = None leaves the top open.  float(value)
\* cannot fail on a number, so the except branch is not reachable here.
clip_value(value, min_val, max_val) ==
    LET v == F(value)
    IN  IF FLt(v, min_val) THEN min_val
        ELSE IF ~IsNone(max_val) /\ FGt(v, max_val) THEN max_val
        ELSE v

\* max(0, min(255, n)) for an int n, Err for Err.
clamp_channel(r) ==
    IF IsErr(r) THEN Err ELSE I(IF r[1] < 0 THEN 0 ELSE IF r[1] > 255 THEN 255 ELSE r[1])

\* A faulty line 151, which rounds and does not clip.
round_color_value(value) == PyRound(value)

\* clip_color_value(value): max(0, min(255, int(round(value)))), or Err when
\* round() raises.
clip_color_value(value) == clamp_channel(PyRound(value))

\* The inner function of hsl_to_rgb (lines 166-177), one operator per
\* statement.
hue_to_rgb_pick(p, q, t) ==
    IF FLt(t, Q(1, 6)) THEN FAdd(p, FMul(FMul(FSub(q, p), I(6)), t))
    ELSE IF FLt(t, Q(1, 2)) THEN q
    ELSE IF FLt(t, Q(2, 3)) THEN FAdd(p, FMul(FMul(FSub(q, p), FSub(Q(2, 3), t)), I(6)))
    ELSE p

hue_to_rgb_above(p, q, t1) ==
    hue_to_rgb_pick(p, q, IF FGt(t1, I(1)) THEN FSub(t1, I(1)) ELSE t1)

hue_to_rgb(p, q, t0) ==
    hue_to_rgb_above(p, q, IF FLt(t0, I(0)) THEN FAdd(t0, I(1)) ELSE t0)

\* hsl_to_rgb(h, s, l) -> <<r, g, b>> (integers), or Err; a chain of
\* operators as above.
hsl_to_rgb_tuple(c1, c2, c3) ==                                 \* line 193
    IF IsErr(c1) \/ IsErr(c2) \/ IsErr(c3) THEN Err ELSE <<c1[1], c2[1], c3[1]>>

hsl_to_rgb_clip(rgb) ==                                         \* lines 192-193
    hsl_to_rgb_tuple(clip_color_value(FMul(rgb[1], I(255))),
                     clip_color_value(FMul(rgb[2], I(255))),
                     clip_color_value(FMul(rgb[3], I(255))))

hsl_to_rgb_channels(s, l, p, q, hh) ==                          \* lines 179-190
    The({hsl_to_rgb_clip(rgb) :
            rgb \in {IF FEq(s, I(0)) THEN <<l, l, l>>
                     ELSE <<hue_to_rgb(p, q, FAdd(hh, Q(1, 3))),
                            hue_to_rgb(p, q, hh),
                            hue_to_rgb(p, q, FSub(hh, Q(1, 3)))>>}})

hsl_to_rgb_p(h, s, l, q) ==                                     \* lines 184-186
    The({hsl_to_rgb_channels(s, l, p, q, hh) :
            p \in {FSub(FMul(I(2), l), q)}, hh \in {FDiv(h, I(360))}})

hsl_to_rgb_q(h, s, l) ==                                        \* line 183
    The({hsl_to_rgb_p(h, s, l, q) :
            q \in {IF FLt(l, Q(1, 2)) THEN FMul(l, FAdd(I(1), s))
                   ELSE FSub(FAdd(l, s), FMul(l, s))}})

hsl_to_rgb(h0, s0, l0) ==                                       \* lines 162-164
    The({hsl_to_rgb_q(h, s, l) :
            h \in {F(PyMod(h0, 360))},
            s \in {FDiv(PyMax(I(0), PyMin(I(100), F(s0))), I(100))},
            l \in {FDiv(PyMax(I(0), PyMin(I(100), F(l0))), I(100))}})


(***************************************************************************)
(* Text.  A parameter string is a sequence of tokens: a key letter, a      *)
(* number literal, any other word, or a separator (a run of characters     *)
(* outside [a-zA-Z0-9.-]).  Words and numbers are always separated by a    *)
(* separator token, so the tokens that are not separators are exactly the  *)
(* parts re.split() returns.                                               *)
(***************************************************************************)
Keys == {"h", "s", "l", "a"}

Key(k) == [t |-> "key", s |-> k, v |-> None]
\* A literal float() accepts; s = "dec" when it is a plain signed decimal
\* (digits with an optional point), "name" for inf and nan.
Num(v) == [t |-> "num", s |-> IF IsFinite(v) THEN "dec" ELSE "name", v |-> v]
Word(w) == [t |-> "word", s |-> w, v |-> None]
Sep(x) == [t |-> "sep", s |-> x, v |-> None]

\* Separators that start with ':' (so that "h:" is a substring of the text).
StartsColon(x) == x \in {":", ": ", ":,"}
\* Separators matching \s*:\s* as a whole.
ColonSep(x) == x \in {":", ": ", " : ", " :"}

DefaultParams == [h |-> I(0), s |-> Q(1, 1), l |-> Q(1, 1), a |-> Q(1, 1)]

\* A faulty line 100, which looks for 'h:' at the start of the text only.
HasKeyColonAtStart(ps) ==
    Len(ps) >= 2 /\ ps[1] = Key("h") /\ ps[2].t = "sep" /\ StartsColon(ps[2].s)

\* Line 100: any(x in param_str for x in ['h:', 's:', 'l:', 'a:']).
HasKeyColon(ps) ==
    \E i \in 1..(Len(ps) - 1) :
        ps[i].t = "key" /\ ps[i + 1].t = "sep" /\ StartsColon(ps[i + 1].s)

\* One turn of the loop of parse_color_params over a part; st = <<params,
\* current_param>>, current_param = "" for None.
ParseStep(st, part) ==
    LET params == st[1]
        cur == st[2]
    IN  IF part.t = "sep" THEN st
        ELSE IF part.t = "key" THEN <<params, part.s>>
        ELSE IF cur = "" THEN st
        ELSE IF part.t = "word" THEN st                 \* float() raises ValueError
        ELSE LET value == IF cur = "h" THEN normalize_hue(part.v)
                          ELSE IF cur = "a" THEN clip_value(part.v, I(0), I(1))
                          ELSE clip_value(part.v, I(0), None)
             IN  IF IsErr(value) THEN st                \* ValueError: continue
                 ELSE <<[params EXCEPT ![cur] = value], "">>

RECURSIVE ParseLoop(_, _)
ParseLoop(st, ps) ==
    IF ps = << >> THEN st
    ELSE The({ParseLoop(next, Tail(ps)) : next \in {ParseStep(st, Head(ps))}})

parse_color_params(param_str) ==
    IF param_str = << >> \/ ~HasKeyColon(param_str) THEN DefaultParams
    ELSE ParseLoop(<<DefaultParams, "">>, param_str)[1]

\* calculate_color(base_rgb, color_mode, h_shift, s_mult, l_mult, alpha):
\* <<rgb, alpha>>, or Err when int() raises.
calculate_color_result(new_rgb, alpha) ==                       \* lines 135, 147
    IF IsErr(new_rgb) THEN Err ELSE <<new_rgb, clip_value(alpha, I(0), I(1))>>

calculate_color_new(new_h, new_s, new_l, alpha) ==              \* lines 146-147
    IF IsErr(new_h) THEN Err
    ELSE The({calculate_color_result(new_rgb, alpha) :
                 new_rgb \in {hsl_to_rgb(new_h, new_s, new_l)}})

calculate_color_hsl(hsl, h_shift, s_mult, l_mult, alpha) ==     \* lines 141-143
    The({calculate_color_new(new_h, new_s, new_l, alpha) :
            new_h \in {normalize_hue(FAdd(hsl[1], h_shift))},
            new_s \in {clip_value(FMul(hsl[2], s_mult), I(0), I(100))},
            new_l \in {clip_value(FMul(hsl[3], l_mult), I(0), I(100))}})

calculate_color(base_rgb, color_mode, h_shift, s_mult, l_mult, alpha) ==
    IF color_mode = "RGB"
    THEN calculate_color_result(                                \* lines 134-135
             hsl_to_rgb_tuple(clamp_channel(PyInt(FMul(I(base_rgb[1]), l_mult))),
                              clamp_channel(PyInt(FMul(I(base_rgb[2]), l_mult))),
                              clamp_channel(PyInt(FMul(I(base_rgb[3]), l_mult)))),
             alpha)
    ELSE The({calculate_color_hsl(hsl, h_shift, s_mult, l_mult, alpha) :
                 hsl \in {rgb_to_hsl(base_rgb)}})


(***************************************************************************)
(* SVGProcessor.  A colour-params dict is a record: the 'rgb' form         *)
(* [rgb, seq, a] (seq tells a list from a tuple, which str() prints        *)
(* differently) or the 'hsl' form [h, s, l, a].  A style attribute is a    *)
(* sequence of declarations [name, colon, value]; a source image is the    *)
(* style attributes of its elements plus the rest of the document, which   *)
(* the transform copies and which is identified by <<dir, base, version>>. *)
(***************************************************************************)
NoPalette == "None"

DictGet(d, k, default) == IF k \in DOMAIN d THEN d[k] ELSE default

Decl(n, v) == [name |-> n, colon |-> TRUE, value |-> [s |-> v]]

ColourNames == {"fill", "color", "stroke"}
\* name.endswith('-opacity') for the names that occur.
EndsWithOpacity(n) == n \in {"fill-opacity", "color-opacity", "stroke-opacity"}
\* value.lower() != 'none'
IsNoneValue(v) == "s" \in DOMAIN v /\ v.s \in {"none", "None", "NONE"}

\* f"{x:.3f}" and f"{x:.2f}": x rounded to that many decimals (nan stays nan).
Fmt(x, scale) ==
    IF ~IsFinite(x) THEN F(x)
    ELSE LET r == PyRound(FMul(F(x), I(scale))) IN Q(r[1], scale)

\* abs(alpha - 1.0) > 0.001
AlphaVisible(alpha) == FGt(FAbs(F(FSub(alpha, I(1)))), Q(1, 1000))

\* Lines 279-320: the colour a style is rewritten to, <<final_rgb, alpha>>,
\* or Err when the computation raises.
FinalResult(c, params) ==
    IF IsErr(c) THEN Err ELSE <<c, F(DictGet(params, "a", Q(1, 1)))>>

FinalAdjusted(h, sx, lx, params) ==
    IF IsErr(h) THEN Err
    ELSE The({FinalResult(c, params) : c \in {hsl_to_rgb(h, sx, lx)}})

FinalShifted(hsl, params) ==
    The({FinalAdjusted(h, sx, lx, params) :
            h \in {normalize_hue(FAdd(hsl[1], F(DictGet(params, "h", I(0)))))},
            sx \in {clip_value(FMul(hsl[2], F(DictGet(params, "s", Q(1, 1)))),
                               I(0), I(100))},
            lx \in {clip_value(FMul(hsl[3], F(DictGet(params, "l", Q(1, 1)))),
                               I(0), I(100))}})

FinalColour(base_rgb, params) ==
    IF ~IsNone(base_rgb)
    THEN The({FinalShifted(hsl, params) : hsl \in {rgb_to_hsl(base_rgb)}})
    ELSE IF "rgb" \in DOMAIN params
    THEN <<params.rgb, DictGet(params, "a", Q(1, 1))>>
    ELSE FinalAdjusted(F(DictGet(params, "h", I(0))),
                       F(DictGet(params, "s", I(100))),
                       F(DictGet(params, "l", I(50))),
                       params)

\* f"{name}-opacity"
OpacityName(n) ==
    CASE n = "fill" -> "fill-opacity"
      [] n = "color" -> "color-opacity"
      [] OTHER -> "stroke-opacity"

\* Lines 323-335: the declarations one declaration is rewritten to.
RewriteDecl(prop, final_rgb, alpha) ==
    IF ~prop.colon THEN <<prop>>
    ELSE IF prop.name \in ColourNames /\ ~IsNoneValue(prop.value)
    THEN <<[name |-> prop.name, colon |-> TRUE, value |-> [rgb |-> final_rgb]]>>
         \o (IF AlphaVisible(alpha)
             THEN <<[name |-> OpacityName(prop.name), colon |-> TRUE,
                     value |-> [num |-> Fmt(alpha, 1000)]]>>
             ELSE << >>)
    ELSE IF ~EndsWithOpacity(prop.name) THEN <<prop>>
    ELSE << >>

RECURSIVE RewriteDecls(_, _, _)
RewriteDecls(props, final_rgb, alpha) ==
    IF props = << >> THEN << >>
    ELSE RewriteDecl(Head(props), final_rgb, alpha)
         \o RewriteDecls(Tail(props), final_rgb, alpha)

\* Lines 322-343: the style rewritten to a colour; unchanged when the
\* computation raised.
RewriteStyle(style, fc) ==
    IF IsErr(fc) THEN style ELSE RewriteDecls(style, fc[1], fc[2])

\* transform_style_colors(style, base_rgb, params)
transform_style_colors(style, base_rgb, params) ==
    IF style = << >> THEN style
    ELSE The({RewriteStyle(style, fc) : fc \in {FinalColour(base_rgb, params)}})

\* The style attributes of every source image of the model (one element).
SourceStyle ==
    <<Decl("fill", "#000000"), Decl("stroke", "none"),
      Decl("opacity", "0.5"), Decl("fill-opacity", "0.3")>>

\* str(color_params): the text that is hashed.  Brackets tell a list from a
\* tuple; an int prints without a decimal point, which the number encoding
\* keeps (<<1>> against <<1, 1>>).
dict_str(d) ==
    IF "rgb" \in DOMAIN d
    THEN [k1 |-> "rgb", open |-> IF d.seq = "list" THEN "[" ELSE "(", v1 |-> d.rgb,
          k2 |-> "a", v2 |-> d.a]
    ELSE [k1 |-> "h", v1 |-> d.h, k2 |-> "s", v2 |-> d.s, k3 |-> "l", v3 |-> d.l,
          k4 |-> "a", v4 |-> d.a]

\* A faulty line 214, which leaves the colour params out of the hashed text.
params_hash_palette_only(palette_color, color_params) ==
    [palette |-> palette_color, params |-> "none"]

\* Line 214: md5(f"{palette_color}:{color_params}")[:8].  The digest is
\* taken to be collision-free: it is the hashed text itself.
params_hash(palette_color, color_params) ==
    [palette |-> palette_color, params |-> dict_str(color_params)]

NoHash == [none |-> TRUE]

\* SVGProcessor.process_svg(input_path, output_path, palette_color,
\* color_params): [ok, fs], the file system after it; ok is FALSE when it
\* raises.  src is <<dir, base>> under base_path.
process_svg(fs, srcs, pal, src, output_path, palette_color, color_params) ==
    IF src \notin DOMAIN srcs \/ srcs[src].st # "ok"
    THEN [ok |-> FALSE, fs |-> fs]                       \* ET.parse raises
    ELSE IF palette_color # NoPalette /\ palette_color \notin DOMAIN pal
    THEN [ok |-> FALSE, fs |-> fs]                       \* KeyError
    ELSE The({[ok |-> TRUE,
               fs |-> [p \in {output_path} |->
                          [src |-> src, ver |-> srcs[src].ver, style |-> style]]
                      @@ fs] :
                 style \in {transform_style_colors(
                                SourceStyle,
                                IF palette_color # NoPalette THEN pal[palette_color]
                                ELSE None,
                                color_params)}})

\* The source a request names: the path with the resource prefix removed.
SrcOf(svg_path) == <<svg_path.dir, svg_path.base>>

\* The output path of a request (lines 213-217).
OutputPath(base_path, svg_path, palette_color, color_params) ==
    [at |-> base_path, dir |-> ".processed_svg", base |-> svg_path.base,
     hash |-> params_hash(palette_color, color_params)]

\* A faulty line 219, which finds no file: every call is a miss.
cache_miss_always(fs, output_path) == TRUE

\* A faulty line 219, which looks for the file under base_path and not in
\* the cache directory.
cache_miss_in_base(fs, output_path) == [output_path EXCEPT !.dir = ""] \notin DOMAIN fs

\* Line 219: not os.path.exists(output_path).
cache_miss(fs, output_path) == output_path \notin DOMAIN fs

\* SVGProcessor.get_or_process_svg(svg_path, palette_color, color_params):
\* [fs, call]; call records what the call did: existed (the output file was
\* there on entry), ran (process_svg ran, which reads the source), wrote (the
\* output file was written), ok (FALSE when the call raised) and ret, the
\* relative path returned.
get_or_process_svg_result(fs, base_path, svg_path, palette_color, color_params, output_path, run, done) ==
    [fs |-> done.fs,
     call |-> [at |-> base_path, svg |-> svg_path, pc |-> palette_color,
               cp |-> color_params, out |-> output_path,
               existed |-> output_path \in DOMAIN fs,
               ran |-> run, wrote |-> run /\ done.ok, ok |-> done.ok,
               ret |-> [dir |-> output_path.dir, base |-> output_path.base,
                        hash |-> output_path.hash]]]

\* A faulty line 220, which runs process_svg whether or not the file is
\* there.
get_or_process_svg_rerun(fs, srcs, pal, base_path, svg_path, palette_color, color_params, output_path, run) ==
    The({get_or_process_svg_result(
             fs, base_path, svg_path, palette_color, color_params, output_path, TRUE,
             done) :
            done \in {process_svg(fs, srcs, pal, SrcOf(svg_path), output_path,
                                  palette_color, color_params)}})

get_or_process_svg_run(fs, srcs, pal, base_path, svg_path, palette_color, color_params, output_path, run) ==
    The({get_or_process_svg_result(
             fs, base_path, svg_path, palette_color, color_params, output_path, run, done) :
            done \in {IF run
                      THEN process_svg(fs, srcs, pal, SrcOf(svg_path), output_path,
                                       palette_color, color_params)
                      ELSE [ok |-> TRUE, fs |-> fs]}})

get_or_process_svg_at(fs, srcs, pal, base_path, svg_path, palette_color, color_params, output_path) ==
    get_or_process_svg_run(fs, srcs, pal, base_path, svg_path, palette_color,
                           color_params, output_path, cache_miss(fs, output_path))

get_or_process_svg(fs, srcs, pal, base_path, svg_path, palette_color, color_params) ==
    The({get_or_process_svg_at(fs, srcs, pal, base_path, svg_path, palette_color,
                               color_params, output_path) :
            output_path \in {OutputPath(base_path, svg_path, palette_color,
                                        color_params)}})

(***************************************************************************)
(* StyleSheetLoader: the two passes.  A stylesheet is a sequence of items: *)
(*   [kind |-> "text", s]                          text no pattern matches *)
(*   [kind |-> "QPalette", name, parens, params]   QPalette.Name(params)   *)
(*   [kind |-> "svg", url, fn, name, parens, params]                       *)
(*                                   url(path.svg).fn(params), fn one of   *)
(*                                   QPalette (with name), hsl(a), rgb(a)  *)
(* where url = [quote, prefix, dir, base]: the quote character, whether    *)
(* the path starts with the resource prefix, and the path.  The params of  *)
(* a QPalette item are tokens as above; those of a literal are its parts   *)
(* [t, v, pct], split at commas and spaces.                                *)
(***************************************************************************)
LNum(v) == [t |-> "num", v |-> v, pct |-> FALSE]
LPct(v) == [t |-> "num", v |-> v, pct |-> TRUE]
LWord(w) == [t |-> "word", v |-> None, pct |-> FALSE, s |-> w]

\* url('<prefix>:<path>') or url('<path>') naming a source or a cache file.
UrlItem(prefixed, dir, base, hash) ==
    [kind |-> "url", quote |-> "'", prefix |-> prefixed, dir |-> dir, base |-> base,
     hash |-> hash]

\* The path string inside url(...).
PathOf(url) == [prefix |-> url.prefix, dir |-> url.dir, base |-> url.base]

\* The except branches of process_qpalette, process_hsl and process_rgb: the
\* plain reference, with the resource prefix put in front.
Fallback(url) == UrlItem(TRUE, url.dir, url.base, NoHash)

\* re.findall(r'([hsla])\s*:\s*([-+]?\d*\.?\d+)', params) folded into the
\* dict of lines 948-950: a key, a colon separator and a decimal literal.
RECURSIVE FindParams(_, _, _)
FindParams(ps, i, d) ==
    IF i + 2 > Len(ps) THEN d
    ELSE IF /\ ps[i].t = "key"
            /\ ps[i + 1].t = "sep" /\ ColonSep(ps[i + 1].s)
            /\ ps[i + 2].t = "num" /\ ps[i + 2].s = "dec"
         THEN FindParams(ps, i + 3, [d EXCEPT ![ps[i].s] = F(ps[i + 2].v)])
         ELSE FindParams(ps, i + 1, d)

\* A dict over a subset of the keys: an absent key maps to None.
EmptyDict == [k \in Keys |-> None]
Has(d, k) == ~IsNone(d[k])

\* Lines 956-1013: the colour params process_qpalette computes from a
\* non-empty parameter string; cp is the dict of the parameters found.
QPaletteKept(base_rgb, cp) ==
    [form |-> "rgb", seq |-> "list", rgb |-> base_rgb,
     a |-> IF Has(cp, "a") THEN cp["a"] ELSE Q(1, 1)]

QPaletteResult(base_rgb, cp, c) ==
    IF IsErr(c) THEN QPaletteKept(base_rgb, cp)
    ELSE [QPaletteKept(base_rgb, cp) EXCEPT !.rgb = c]

QPaletteAdjusted(base_rgb, cp, h, sx, lx) ==
    IF IsErr(h) THEN QPaletteKept(base_rgb, cp)
    ELSE The({QPaletteResult(base_rgb, cp, c) : c \in {hsl_to_rgb(h, sx, lx)}})

QPaletteShifted(base_rgb, cp, hsl) ==
    The({QPaletteAdjusted(base_rgb, cp, h, sx, lx) :
            h \in {IF Has(cp, "h") THEN normalize_hue(FAdd(hsl[1], cp["h"]))
                   ELSE hsl[1]},
            sx \in {IF Has(cp, "s") THEN clip_value(FMul(hsl[2], cp["s"]), I(0), I(100))
                    ELSE hsl[2]},
            lx \in {IF Has(cp, "l") THEN clip_value(FMul(hsl[3], cp["l"]), I(0), I(100))
                    ELSE hsl[3]}})

\* A faulty line 959, which takes the HSL branch in either mode.
QPaletteWithShift(base_rgb, color_mode, cp) ==
    The({QPaletteShifted(base_rgb, cp, hsl) : hsl \in {rgb_to_hsl(base_rgb)}})

QPaletteWith(base_rgb, color_mode, cp) ==
    IF color_mode = "HSL"
    THEN The({QPaletteShifted(base_rgb, cp, hsl) : hsl \in {rgb_to_hsl(base_rgb)}})
    ELSE IF Has(cp, "l")
    THEN The({QPaletteResult(base_rgb, cp, c) :
                 c \in {hsl_to_rgb_tuple(
                            clip_color_value(FMul(I(base_rgb[1]), cp["l"])),
                            clip_color_value(FMul(I(base_rgb[2]), cp["l"])),
                            clip_color_value(FMul(I(base_rgb[3]), cp["l"])))}})
    ELSE QPaletteKept(base_rgb, cp)

QPaletteParams(base_rgb, color_mode, params) ==
    The({QPaletteWith(base_rgb, color_mode, cp) :
            cp \in {FindParams(params, 1, EmptyDict)}})

\* A faulty tail, which writes the rewritten reference only when the call
\* made the file.
MaterializeResultFresh(search_dir, url, r) ==
    [fs |-> r.fs, calls |-> <<r.call>>,
     item |-> IF r.call.ok /\ r.call.ran
              THEN UrlItem(search_dir, r.call.ret.dir, r.call.ret.base, r.call.ret.hash)
              ELSE Fallback(url),
     st |-> IF r.call.ok THEN "ok" ELSE "failed"]

\* The tail of the three process_* methods: ask the cache, and write the
\* rewritten reference; the except branch on a raise.
MaterializeResult(search_dir, url, r) ==
    [fs |-> r.fs, calls |-> <<r.call>>,
     item |-> IF r.call.ok
              THEN UrlItem(search_dir, r.call.ret.dir, r.call.ret.base, r.call.ret.hash)
              ELSE Fallback(url),
     st |-> IF r.call.ok THEN "ok" ELSE "failed"]

Materialize(fs, srcs, pal, base_path, search_dir, url, svg_path, color_params) ==
    The({MaterializeResult(search_dir, url, r) :
            r \in {get_or_process_svg(fs, srcs, pal, base_path, svg_path, NoPalette,
                                      color_params)}})

Failed(fs, url) == [fs |-> fs, calls |-> << >>, item |-> Fallback(url), st |-> "failed"]

\* process_qpalette(url, color, params)
process_qpalette(fs, srcs, pal, base_path, search_dir, color_mode, url, color, params) ==
    IF color \notin DOMAIN pal THEN Failed(fs, url)          \* KeyError, line 938
    ELSE The({Materialize(fs, srcs, pal, base_path, search_dir, url,
                          [PathOf(url) EXCEPT !.prefix = FALSE],  \* lines 934-935
                          color_params) :
                 color_params \in
                     {IF params # << >>
                      THEN QPaletteParams(pal[color], color_mode, params)
                      ELSE [form |-> "rgb", seq |-> "tuple", rgb |-> pal[color],
                            a |-> Q(1, 1)]}})

\* float(part) for a part of a literal, after rstrip of the unit the code
\* strips there (strip_pct says whether '%' is stripped); Err on ValueError.
PartFloat(part, strip_pct) ==
    IF part.t # "num" \/ (part.pct /\ ~strip_pct) THEN Err ELSE F(part.v)

\* process_hsl(url, params, with_alpha)
process_hsl_values(fs, srcs, pal, base_path, search_dir, url, h, sx, lx, a) ==
    IF IsErr(h) \/ IsErr(sx) \/ IsErr(lx) \/ IsErr(a) THEN Failed(fs, url)
    ELSE The({Materialize(fs, srcs, pal, base_path, search_dir, url, PathOf(url),
                          color_params) :
                 color_params \in {[form |-> "hsl", h |-> h, s |-> sx, l |-> lx,
                                    a |-> clip_value(a, I(0), I(1))]}})

process_hsl(fs, srcs, pal, base_path, search_dir, url, parts) ==
    IF Len(parts) < 3 THEN Failed(fs, url)
    ELSE process_hsl_values(fs, srcs, pal, base_path, search_dir, url,
                            PartFloat(parts[1], FALSE),
                            PartFloat(parts[2], TRUE),
                            PartFloat(parts[3], TRUE),
                            IF Len(parts) >= 4
                            THEN (IF parts[4].t = "num" /\ parts[4].pct
                                  THEN FDiv(parts[4].v, I(100))
                                  ELSE PartFloat(parts[4], FALSE))
                            ELSE Q(1, 1))                      \* "100%"

\* process_rgb(url, params, with_alpha)
process_rgb_clipped(fs, srcs, pal, base_path, search_dir, url, r, g, b, alpha) ==
    IF IsErr(r) \/ IsErr(g) \/ IsErr(b) THEN Failed(fs, url)
    ELSE The({Materialize(fs, srcs, pal, base_path, search_dir, url, PathOf(url),
                          color_params) :
                 color_params \in {[form |-> "rgb", seq |-> "tuple",
                                    rgb |-> <<r[1], g[1], b[1]>>, a |-> alpha]}})

process_rgb_values(fs, srcs, pal, base_path, search_dir, url, r, g, b, a) ==
    IF IsErr(r) \/ IsErr(g) \/ IsErr(b) \/ IsErr(a) THEN Failed(fs, url)
    ELSE The({process_rgb_clipped(fs, srcs, pal, base_path, search_dir, url,
                                  rc, gc, bc, alpha) :
                 rc \in {clip_color_value(r)}, gc \in {clip_color_value(g)},
                 bc \in {clip_color_value(b)},
                 alpha \in {IF FGt(a, I(1))
                            THEN clip_value(FDiv(a, I(255)), I(0), I(1))
                            ELSE clip_value(a, I(0), I(1))}})

process_rgb(fs, srcs, pal, base_path, search_dir, url, parts) ==
    IF Len(parts) < 3 THEN Failed(fs, url)
    ELSE process_rgb_values(fs, srcs, pal, base_path, search_dir, url,
                            PartFloat(parts[1], FALSE),
                            PartFloat(parts[2], FALSE),
                            PartFloat(parts[3], FALSE),
                            IF Len(parts) >= 4 THEN PartFloat(parts[4], FALSE)
                            ELSE Q(255, 1))

\* handle_svg_match(match): what one item of the text becomes in the
\* composite pass.  st is "none" when the pattern does not match the item
\* and "skip" when it matches but no branch takes it (empty parentheses).
handle_svg_match(fs, srcs, pal, base_path, search_dir, color_mode, it) ==
    IF it.kind # "svg" THEN [fs |-> fs, calls |-> << >>, item |-> it, st |-> "none"]
    ELSE IF it.fn = "QPalette"
    THEN process_qpalette(fs, srcs, pal, base_path, search_dir, color_mode,
                          it.url, it.name, it.params)
    ELSE IF it.params = << >>
    THEN [fs |-> fs, calls |-> << >>, item |-> it, st |-> "skip"]
    ELSE IF it.fn \in {"hsl", "hsla"}
    THEN process_hsl(fs, srcs, pal, base_path, search_dir, it.url, it.params)
    ELSE process_rgb(fs, srcs, pal, base_path, search_dir, it.url, it.params)

\* svg_pattern.sub(handle_svg_match, stylesheet): left to right over the
\* items; acc = [fs, calls, out, st], r what an item became.
SubSvgAcc(acc, r) ==
    [fs |-> r.fs, calls |-> acc.calls \o r.calls, out |-> Append(acc.out, r.item),
     st |-> Append(acc.st, r.st)]

\* Each item is handled before the next one is looked at: the accumulator is
\* computed (as the one element of a set) before the recursion goes on.
RECURSIVE SubSvg(_, _, _, _, _, _, _)
SubSvg(acc, srcs, pal, base_path, search_dir, color_mode, sheet) ==
    IF sheet = << >> THEN acc
    ELSE CHOOSE res \in
             {SubSvg(a, srcs, pal, base_path, search_dir, color_mode, Tail(sheet)) :
                 a \in {SubSvgAcc(acc, r) :
                           r \in {handle_svg_match(acc.fs, srcs, pal, base_path,
                                                   search_dir, color_mode, Head(sheet))}}} :
             TRUE

\* The base directories in which os.makedirs(temp_dir, exist_ok=True) of line
\* 202 raises: .processed_svg is there as a file, or cannot be created.
BlockedDirs == {"locked"}

\* process_svg_urls(stylesheet, base_path): when the SVGProcessor of lines
\* 874-878 cannot be made, the except branch of lines 921-923 returns the
\* stylesheet as it is.
process_svg_urls(fs, srcs, pal, base_path, search_dir, color_mode, sheet) ==
    IF base_path \in BlockedDirs
    THEN [fs |-> fs, calls |-> << >>, out |-> sheet,
          st |-> [i \in 1..Len(sheet) |-> "none"]]
    ELSE SubSvg([fs |-> fs, calls |-> << >>, out |-> << >>, st |-> << >>],
                srcs, pal, base_path, search_dir, color_mode, sheet)

\* Lines 735-746: the literal a resolved placeholder is written as.
\* A faulty format that writes no alpha in any case.
FormatValuesOpaque(color_mode, c, alpha) ==
    [kind |-> IF color_mode = "RGB" THEN "rgb" ELSE "hsl", c |-> c, a |-> None]

FormatValues(color_mode, c, alpha) ==
    IF FLt(FAbs(F(FSub(alpha, I(1)))), Q(1, 1000))
    THEN [kind |-> IF color_mode = "RGB" THEN "rgb" ELSE "hsl", c |-> c, a |-> None]
    ELSE [kind |-> IF color_mode = "RGB" THEN "rgba" ELSE "hsla", c |-> c,
          a |-> Fmt(alpha, 100)]

FormatHsl(hsl) == <<PyInt(hsl[1])[1], PyInt(hsl[2])[1], PyInt(hsl[3])[1]>>

FormatColour(color_mode, color_values, alpha) ==
    The({FormatValues(color_mode, c, alpha) :
            c \in {IF color_mode = "RGB" THEN color_values
                   ELSE FormatHsl(rgb_to_hsl(color_values))}})

\* replace_match(match) for an item the pattern QPalette\.(\w+)(?:\((.*?)\))?
\* matches: [raised, item, st].
replace_match_written(it, colour) ==
    [raised |-> FALSE, st |-> "ok",
     item |-> IF it.kind = "QPalette" THEN colour
              ELSE [kind |-> "svgcolour", url |-> it.url, colour |-> colour]]

replace_match_result(color_mode, it, r) ==
    IF IsErr(r) THEN [raised |-> TRUE, item |-> it, st |-> "failed"]
    ELSE The({replace_match_written(it, colour) :
                 colour \in {FormatColour(color_mode, r[1], r[2])}})

replace_match_params(pal, color_mode, it, params) ==
    The({replace_match_result(color_mode, it, r) :
            r \in {calculate_color(pal[it.name], color_mode, params.h, params.s,
                                   params.l, params.a)}})

replace_match(pal, color_mode, it) ==
    IF it.name \notin DOMAIN pal THEN [raised |-> FALSE, item |-> it, st |-> "skip"]
    ELSE The({replace_match_params(pal, color_mode, it, params) :
                 params \in {IF it.parens THEN parse_color_params(it.params)
                             ELSE DefaultParams}})

\* Whether the placeholder pattern matches inside an item: a placeholder, or
\* the colour part of an image reference with a QPalette colour.
MatchesPlaceholder(it) ==
    it.kind = "QPalette" \/ (it.kind = "svg" /\ it.fn = "QPalette")

\* pattern.sub(replace_match, stylesheet): left to right; an exception in
\* replace_match leaves the substitution and the method.
SubPlaceholdersAcc(acc, r) ==
    [raised |-> r.raised, out |-> Append(acc.out, r.item), st |-> Append(acc.st, r.st)]

RECURSIVE SubPlaceholders(_, _, _, _)
SubPlaceholders(acc, pal, color_mode, sheet) ==
    IF sheet = << >> \/ acc.raised THEN acc
    ELSE CHOOSE res \in
             {SubPlaceholders(a, pal, color_mode, Tail(sheet)) :
                 a \in {SubPlaceholdersAcc(acc, r) :
                           r \in {IF MatchesPlaceholder(Head(sheet))
                                  THEN replace_match(pal, color_mode, Head(sheet))
                                  ELSE [raised |-> FALSE, item |-> Head(sheet),
                                        st |-> "none"]}}} :
             TRUE

\* replace_placeholders(stylesheet): [raised, out, st]; when it raises there
\* is no text.
replace_placeholders_result(r) ==
    IF r.raised THEN [raised |-> TRUE, out |-> << >>, st |-> r.st] ELSE r

replace_placeholders(pal, color_mode, sheet) ==
    The({replace_placeholders_result(r) :
            r \in {SubPlaceholders([raised |-> FALSE, out |-> << >>, st |-> << >>],
                                   pal, color_mode, sheet)}})

(***************************************************************************)
(* The inputs the operations are applied to.                               *)
(***************************************************************************)
\* Bounds of the model.
MaxVersion == 2     \* versions a source image goes through
MaxHue == 720       \* normalize_hue is applied to |h| <= MaxHue

\* get_palette_rgb_values(): three of the thirteen roles, with the colours of
\* the application palette.
Palette1 ==
    [n \in {"Window", "Highlight", "Base"} |->
        CASE n = "Window" -> <<200, 100, 50>>
          [] n = "Highlight" -> <<51, 153, 255>>
          [] OTHER -> <<0, 0, 0>>]

BaseDirs == {"theme"}

\* The image files under the base directory: two valid ones with the same
\* file name in different folders, and one that is not well-formed XML.  A
\* path outside the domain is a missing file.
SourcePaths == {<<"images", "a">>, <<"icons", "a">>, <<"", "bad">>}
InitSources ==
    [p \in SourcePaths |->
        [st |-> IF p = <<"", "bad">> THEN "bad" ELSE "ok", ver |-> 1]]

Url(q, pre, dir, base) == [quote |-> q, prefix |-> pre, dir |-> dir, base |-> base]
UrlA == Url("", FALSE, "images", "a")          \* url(images/a.svg)
UrlAPrefixed == Url("'", TRUE, "images", "a")  \* url('stylesheet:images/a.svg')
UrlIconsA == Url("", FALSE, "icons", "a")      \* url(icons/a.svg)
UrlMissing == Url("", FALSE, "", "missing")    \* url(missing.svg)
UrlBad == Url("", FALSE, "", "bad")            \* url(bad.svg)

KV(k, sep, v) == <<Key(k), Sep(sep), v>>
\* Parameter strings of QPalette references.  The values are ones on which
\* exact arithmetic and the floating-point arithmetic of the code round and
\* truncate to the same integers.
ParamStrings ==
    { << >>,                                                        \* ()
      KV("l", ": ", Num(Q(1, 1))),                                  \* (l: 1.0)
      KV("h", ": ", Num(Q(-2, 1))) \o <<Sep(", ")>> \o KV("s", ": ", Num(Q(5, 4)))
        \o <<Sep(", ")>> \o KV("l", ": ", Num(Q(26, 25))) \o <<Sep(", ")>>
        \o KV("a", ": ", Num(Q(4, 5))),           \* (h: -2, s: 1.25, l: 1.04, a: 0.8)
      KV("a", ": ", Num(Q(3, 2))),                                  \* (a: 1.5)
      KV("l", ": ", Num(Inf)),                                      \* (l: inf)
      KV("h", ":", Num(Q(-10, 1))),                                 \* (h:-10)
      <<Word("invalid")>> }                                         \* (invalid)

Names == {"Window", "Highlight", "Nope"}

Placeholder(n, parens, ps) ==
    [kind |-> "QPalette", name |-> n, parens |-> parens, params |-> ps]
Composite(u, fn, n, parens, ps) ==
    [kind |-> "svg", url |-> u, fn |-> fn, name |-> n, parens |-> parens, params |-> ps]

Placeholders ==
    {Placeholder(n, TRUE, ps) : n \in {"Window", "Nope"}, ps \in ParamStrings}
    \cup {Placeholder(n, FALSE, << >>) : n \in Names}

\* The literals attached to images.
Literals ==
    { <<"rgb", <<LNum(Q(200, 1)), LNum(Q(100, 1)), LNum(Q(50, 1))>> >>,
      <<"rgba", <<LNum(Q(200, 1)), LNum(Q(100, 1)), LNum(Q(50, 1)), LNum(Q(300, 1))>> >>,
      <<"rgba", <<LNum(Q(200, 1)), LNum(Q(100, 1)), LNum(Q(50, 1)), LNum(Q(1, 2))>> >>,
      <<"rgb", <<LNum(Q(1, 1)), LNum(Q(2, 1))>> >>,
      <<"rgb", << >> >>,
      <<"hsl", <<LNum(Q(20, 1)), LPct(Q(60, 1)), LPct(Q(49, 1))>> >>,
      <<"hsla", <<LNum(Q(20, 1)), LPct(Q(60, 1)), LPct(Q(49, 1)), LNum(Q(-1, 2))>> >>,
      <<"hsl", <<LNum(Q(20, 1)), LWord("x"), LPct(Q(49, 1))>> >> }

Composites ==
    {Composite(UrlA, "QPalette", "Window", TRUE, ps) : ps \in ParamStrings}
    \cup {Composite(UrlA, "QPalette", n, FALSE, << >>) : n \in Names}
    \cup {Composite(UrlA, l[1], "", TRUE, l[2]) : l \in Literals}
    \cup {Composite(u, "rgb", "", TRUE,
                    <<LNum(Q(200, 1)), LNum(Q(100, 1)), LNum(Q(50, 1))>>) :
             u \in {UrlIconsA, UrlAPrefixed, UrlMissing, UrlBad}}
    \cup {Composite(UrlAPrefixed, "QPalette", "Nope", TRUE, KV("h", ": ", Num(Q(1, 1))))}

TextItem == [kind |-> "text", s |-> "QWidget { border: 1px; }"]

\* Occurrences that resolve, put before and after another one.
GoodPlaceholder == Placeholder("Highlight", FALSE, << >>)
GoodComposite ==
    Composite(UrlA, "rgb", "", TRUE, <<LNum(Q(200, 1)), LNum(Q(100, 1)), LNum(Q(50, 1))>>)

\* The stylesheets: one occurrence alone, and one between others that
\* resolve.
Sheets ==
    {<<x>> : x \in Placeholders \cup Composites}
    \cup {<<GoodComposite, GoodPlaceholder, TextItem, x, GoodPlaceholder, GoodComposite>> :
             x \in Placeholders \cup Composites}

\* Arguments of direct calls of get_or_process_svg.
DirectPaths == {PathOf(UrlA), PathOf(UrlIconsA), PathOf(UrlMissing)}
DirectColours ==
    { <<NoPalette, [form |-> "rgb", seq |-> "tuple", rgb |-> <<200, 100, 50>>, a |-> Q(1, 1)]>>,
      <<"Highlight", [form |-> "hsl", h |-> Q(-2, 1), s |-> Q(7, 5), l |-> Q(26, 25),
                      a |-> Q(4, 5)]>>,
      <<"Nope", [form |-> "hsl", h |-> Q(0, 1), s |-> Q(1, 1), l |-> Q(1, 1),
                 a |-> Q(1, 1)]>> }

HueInputs ==
    {I(k) : k \in (-MaxHue)..MaxHue} \cup {Q(k, 2) : k \in (-2 * MaxHue)..(2 * MaxHue)}

(***************************************************************************)
(* The state.                                                              *)
(***************************************************************************)
VARIABLES
    stylesheet,             \* the text of the stylesheet file
    files,                  \* the cache files: output path -> content
    sources,                \* the image files under the base directory
    palette,                \* the application palette
    colorMode,              \* StyleSheetLoader.colorMode
    searchInStyleSheetDir,  \* StyleSheetLoader.searchInStyleSheetDir
    base_path,              \* StyleSheetLoader.base_path ("" for None)
    op,                     \* the operation that ran last
    inp,                    \* the text it was given
    out,                    \* the text it returned
    st,                     \* per item of inp: what became of it
    raised,                 \* whether it raised
    calls,                  \* the get_or_process_svg calls it made
    before,                 \* those of the operation that made calls before it
    probe,                  \* a pure function applied to an input
    ext                     \* the settings of the extension and the search path

vars == <<stylesheet, files, sources, palette, colorMode, searchInStyleSheetDir,
          base_path, op, inp, out, st, raised, calls, before, probe, ext>>

NoProbe == [x |-> None, y |-> None, yy |-> None, n |-> 0]

\* A stylesheet file is <<directory, name>>; the empty path is << >>.
NoPath == << >>
DirOf(path) == path[1]

\* The stylesheet files there are to import: two in directories of their own,
\* one in a directory where the cache directory cannot be made, one that is
\* not there and one that is not a text file.
StyleFiles == {<<"theme", "x.qss">>, <<"other", "y.qss">>, <<"locked", "z.qss">>}
MissingFile == <<"theme", "gone.qss">>
ImageFile == <<"theme", "logo.png">>

\* os.path.exists(resource_path), line 671
DirExists(dir) == dir \in {DirOf(f) : f \in StyleFiles}

\* StyleSheetLoader.updateResPath(): the settings e with the search path of
\* the resource prefix set, cleared or (the directory is not there) left.
updateResPath(e, search_dir) ==
    IF search_dir /\ e.startupStyleSheet # NoPath
    THEN IF DirExists(DirOf(e.startupStyleSheet))
         THEN [e EXCEPT !.searchPaths = {DirOf(e.startupStyleSheet)}]
         ELSE e
    ELSE [e EXCEPT !.searchPaths = {}]

\* Lines 389-398: the settings after __init__ with the startupStyleSheet
\* setting read as startup.  result is the outcome of the last import.
Constructed(startup, search_dir) ==
    updateResPath([path |-> startup, useStartup |-> startup # NoPath,
                   startupStyleSheet |-> startup, searchPaths |-> {},
                   result |-> "none"],
                  search_dir)

\* The state after StyleSheetLoader.__init__, for a stylesheet file.
InitState(sheets, startups) ==
    /\ stylesheet \in sheets
    /\ files = << >>
    /\ sources = InitSources
    /\ palette = Palette1
    /\ colorMode \in {"HSL", "RGB"}             \* readSetting(..., "colorMode", "HSL")
    /\ searchInStyleSheetDir \in BOOLEAN        \* readSetting(..., "True") == "True"
    /\ base_path = ""
    /\ op = "init"
    /\ inp = << >>
    /\ out = << >>
    /\ st = << >>
    /\ raised = FALSE
    /\ calls = << >>
    /\ before = << >>
    /\ ext \in {Constructed(s, searchInStyleSheetDir) : s \in startups}

InitFor(sheets, startups) == InitState(sheets, startups) /\ probe = NoProbe

InitWith(sheets) == InitFor(sheets, {NoPath})

Init == InitWith(Sheets)

\* StyleSheetLoader.process_svg_urls(stylesheet, base_path), as line 594
\* calls it; r is what it returns and leaves behind.
ProcessSvgUrlsDone(r) ==
    /\ files' = r.fs
    /\ calls' = r.calls
    /\ out' = r.out
    /\ st' = r.st

ProcessSvgUrls(bp) ==
    /\ \E r \in {process_svg_urls(files, sources, palette, bp, searchInStyleSheetDir,
                                   colorMode, stylesheet)} :
           ProcessSvgUrlsDone(r)
    /\ before' = calls
    /\ base_path' = bp
    /\ op' = "process_svg_urls"
    /\ inp' = stylesheet
    /\ raised' = FALSE
    /\ UNCHANGED <<stylesheet, sources, palette, colorMode, searchInStyleSheetDir, probe,
                   ext>>

\* StyleSheetLoader.replace_placeholders(processed_stylesheet), as line 597
\* calls it on the text the composite pass returned.
ReplacePlaceholdersDone(r) ==
    /\ out' = r.out
    /\ st' = r.st
    /\ raised' = r.raised

ReplacePlaceholders ==
    /\ op = "process_svg_urls"
    /\ \E r \in {replace_placeholders(palette, colorMode, out)} :
           ReplacePlaceholdersDone(r)
    /\ op' = "replace_placeholders"
    /\ inp' = out
    /\ UNCHANGED <<stylesheet, files, sources, palette, colorMode,
                   searchInStyleSheetDir, base_path, calls, before, probe, ext>>

\* The user edits a source image: its content changes, its path does not.
EditSource(p) ==
    /\ sources[p].st = "ok"
    /\ sources[p].ver < MaxVersion
    /\ sources' = [sources EXCEPT ![p].ver = @ + 1]
    /\ UNCHANGED <<stylesheet, files, palette, colorMode, searchInStyleSheetDir,
                   base_path, op, inp, out, st, raised, calls, before, probe, ext>>

Next ==
    \/ \E bp \in BaseDirs : ProcessSvgUrls(bp)
    \/ ReplacePlaceholders
    \/ \E p \in {<<"images", "a">>} : EditSource(p)

Spec == Init /\ [][Next]_vars

(***************************************************************************)
(* The cache used directly: calls of get_or_process_svg on a processor of  *)
(* a base directory, with and without a palette colour.                    *)
(***************************************************************************)
GetOrProcessSvgDone(r) ==
    /\ files' = r.fs
    /\ calls' = <<r.call>>
    /\ raised' = ~r.call.ok

GetOrProcessSvg(bp, svg_path, pc, cp) ==
    /\ GetOrProcessSvgDone(get_or_process_svg(files, sources, palette, bp, svg_path, pc, cp))
    /\ before' = calls
    /\ op' = "get_or_process_svg"
    /\ UNCHANGED <<stylesheet, sources, palette, colorMode, searchInStyleSheetDir,
                   base_path, inp, out, st, probe, ext>>

InitCache ==
    /\ InitWith({<< >>})
    /\ colorMode = "HSL"
    /\ searchInStyleSheetDir

NextCache ==
    \/ \E bp \in BaseDirs, p \in DirectPaths, c \in DirectColours :
          GetOrProcessSvg(bp, p, c[1], c[2])
    \/ \E p \in {<<"images", "a">>} : EditSource(p)

SpecCache == InitCache /\ [][NextCache]_vars

(***************************************************************************)
(* normalize_hue applied to a number, and to its own result.               *)
(***************************************************************************)
InitHue ==
    /\ InitWith({<< >>})
    /\ colorMode = "HSL"
    /\ searchInStyleSheetDir

HueVars == <<stylesheet, files, sources, palette, colorMode, searchInStyleSheetDir,
             base_path, op, inp, out, st, raised, calls, before, ext>>

ChooseHue(h) ==
    /\ probe.n = 0
    /\ IsNone(probe.x)
    /\ probe' = [probe EXCEPT !.x = h]
    /\ UNCHANGED HueVars

NormalizeHue ==
    /\ ~IsNone(probe.x)
    /\ probe.n = 0
    /\ probe' = [probe EXCEPT !.y = normalize_hue(probe.x), !.n = 1]
    /\ UNCHANGED HueVars

NormalizeHueAgain ==
    /\ probe.n = 1
    /\ probe' = [probe EXCEPT !.yy = normalize_hue(probe.y), !.n = 2]
    /\ UNCHANGED HueVars

NextHue ==
    \/ \E h \in HueInputs : ChooseHue(h)
    \/ NormalizeHue
    \/ NormalizeHueAgain

SpecHue == InitHue /\ [][NextHue]_vars


(***************************************************************************)
(* The parser and the colour arithmetic applied to inputs: one call of a   *)
(* function per behaviour, its arguments and its result kept in probe.     *)
(***************************************************************************)
\* The text "k<kv>v<sep>k<kv>v...": the pairs <<key, number>> in the order
\* given, kv between a key and its value, sep between one pair and the next.
RECURSIVE ParamText(_, _, _)
ParamText(pairs, kv, sep) ==
    IF pairs = << >> THEN << >>
    ELSE KV(Head(pairs)[1], kv, Num(Head(pairs)[2]))
         \o (IF Len(pairs) > 1 THEN <<Sep(sep)>> ELSE << >>)
         \o ParamText(Tail(pairs), kv, sep)

\* The parameters of the parser test (h: -2, s: 1.4, l: 1.04, a: 0.8), every
\* non-empty selection of them in every order.
TestPairs == {<<"h", Q(-2, 1)>>, <<"s", Q(7, 5)>>, <<"l", Q(26, 25)>>, <<"a", Q(4, 5)>>}
Orders ==
    {o \in UNION {[1..n -> TestPairs] : n \in 1..4} :
        \A i, j \in 1..Len(o) : i # j => o[i] # o[j]}
\* The selection in the order h, s, l, a.
RECURSIVE Canonical(_, _)
Canonical(o, ks) ==
    IF ks = << >> THEN << >>
    ELSE (IF \E i \in 1..Len(o) : o[i][1] = Head(ks)
          THEN <<CHOOSE p \in TestPairs : p[1] = Head(ks)>> ELSE << >>)
         \o Canonical(o, Tail(ks))

\* Strings with missing, non-numeric and stray tokens.
Malformed ==
    { <<Word("invalid")>>,                                                \* invalid
      <<Key("h"), Sep(":,"), Key("s"), Sep(":,"), Key("l"), Sep(":,"),
        Key("a"), Sep(":")>>,                                             \* h:,s:,l:,a:
      <<Key("h"), Sep(": "), Word("x"), Sep(", ")>> \o KV("s", ": ", Num(Q(2, 1))),
                                                                          \* h: x, s: 2
      <<Key("h"), Sep(": "), Word("x"), Sep(" "), Num(Q(5, 1))>>,         \* h: x 5
      <<Key("h"), Sep(": "), Num(Inf), Sep(", "), Num(Q(3, 1))>>,         \* h: inf, 3
      KV("l", ": ", Num(Q(1, 1))) \o <<Sep(","), Num(Q(5, 1))>>,          \* l: 1,5
      KV("a", ": ", Num(Q(1, 2))) \o <<Sep(", "), Word("q"), Sep(": ")>>
        \o <<Num(Q(9, 1))>> }                                             \* a: 0.5, q: 9

\* Base colours, and the values the parameters take.
BaseColours ==
    {<<200, 100, 50>>, <<200, 100, 51>>, <<255, 0, 0>>, <<128, 128, 128>>, <<0, 0, 0>>}
ParamValues ==
    [h : {Q(0, 1), Q(1, 2), Q(-2, 1), Q(-180, 1), Q(850, 1)},
     s : {Q(0, 1), Q(1, 1), Q(5, 4), Q(300, 1)},
     l : {Q(0, 1), Q(1, 1), Q(3, 2), Q(101, 100), Q(300, 1), Inf},
     a : {Q(1, 1), Q(1, 2), Q(3, 2)}]
\* Colours on a grid of channel values, for the conversions.
Channels == {0, 1, 51, 100, 128, 200, 254, 255}
OutOfRange == {Q(-400, 1), Q(-1, 2), Q(0, 1), Q(50, 1), Q(100, 1), Q(255, 1), Q(721, 2), Q(1000, 1)}

\* parse_color_params(x) and parse_color_params(alt).
ParseColorParams(x, alt) ==
    /\ probe.n = 0
    /\ probe' = [n |-> 1, fn |-> "parse_color_params", x |-> x, alt |-> alt,
                 y |-> parse_color_params(x), yy |-> parse_color_params(alt)]
    /\ UNCHANGED HueVars

\* calculate_color(base, mode, arg.h, arg.s, arg.l, arg.a); raw are the values
\* as written, arg the ones passed: raw itself, or what the parser made of
\* raw when the call is the one of replace_match (lines 723-733).
CalculateColorWith(base, mode, raw, parsed, arg) ==
    /\ probe.n = 0
    /\ probe' = [n |-> 1, fn |-> "calculate_color", base |-> base, mode |-> mode,
                 raw |-> raw, parsed |-> parsed, arg |-> arg,
                 res |-> calculate_color(base, mode, arg.h, arg.s, arg.l, arg.a)]
    /\ UNCHANGED HueVars

CalculateColor(base, mode, raw, parsed) ==
    CalculateColorWith(base, mode, raw, parsed,
                       IF parsed
                       THEN parse_color_params(
                                ParamText(<<<<"h", raw.h>>, <<"s", raw.s>>, <<"l", raw.l>>,
                                            <<"a", raw.a>>>>, ": ", ", "))
                       ELSE raw)

\* hsl_to_rgb(*rgb_to_hsl(*c))
RoundTripOf(c, hsl) ==
    /\ probe.n = 0
    /\ probe' = [n |-> 1, fn |-> "round_trip", x |-> c, y |-> hsl,
                 res |-> hsl_to_rgb(hsl[1], hsl[2], hsl[3])]
    /\ UNCHANGED HueVars

RoundTrip(c) == RoundTripOf(c, rgb_to_hsl(c))

\* hsl_to_rgb(h, s, l)
HslToRgb(h, s, l) ==
    /\ probe.n = 0
    /\ probe' = [n |-> 1, fn |-> "hsl_to_rgb", x |-> <<h, s, l>>,
                 res |-> hsl_to_rgb(h, s, l)]
    /\ UNCHANGED HueVars

\* The colour params process_qpalette and process_rgb hand to the cache (none
\* when the method fails before its call).
ColourParamsOf(fn, x, mode, r) ==
    /\ probe.n = 0
    /\ probe' = [n |-> 1, fn |-> fn, x |-> x, mode |-> mode,
                 res |-> [i \in 1..Len(r.calls) |-> r.calls[i].cp]]
    /\ UNCHANGED HueVars

ProcessQPalette(name, mode, params) ==
    ColourParamsOf("process_qpalette", <<name, params>>, mode,
                   process_qpalette(<< >>, sources, palette, "theme", TRUE, mode, UrlA,
                                    name, params))

ProcessRgb(parts) ==
    ColourParamsOf("process_rgb", parts, "RGB",
                   process_rgb(<< >>, sources, palette, "theme", TRUE, UrlA, parts))

\* The three places that call hsl_to_rgb, and what each hands to it.
HslOfCalculateColor(hsl, h_shift, s_mult, l_mult) ==            \* lines 141-146
    <<normalize_hue(FAdd(hsl[1], h_shift)),
      clip_value(FMul(hsl[2], s_mult), I(0), I(100)),
      clip_value(FMul(hsl[3], l_mult), I(0), I(100))>>

HslOfQPalette(hsl, cp) ==                                       \* lines 960-969
    <<IF Has(cp, "h") THEN normalize_hue(FAdd(hsl[1], cp["h"])) ELSE hsl[1],
      IF Has(cp, "s") THEN clip_value(FMul(hsl[2], cp["s"]), I(0), I(100)) ELSE hsl[2],
      IF Has(cp, "l") THEN clip_value(FMul(hsl[3], cp["l"]), I(0), I(100)) ELSE hsl[3]>>

HslOfStyle(params) ==                                           \* lines 315-318
    <<F(DictGet(params, "h", I(0))), F(DictGet(params, "s", I(100))),
      F(DictGet(params, "l", I(50)))>>

\* transform_style_colors on the colour params process_hsl makes of an hsl
\* literal.
TransformStyleColors(params) ==
    /\ probe.n = 0
    /\ probe' = [n |-> 1, fn |-> "transform_style_colors", x |-> params,
                 res |-> transform_style_colors(SourceStyle, None, params)]
    /\ UNCHANGED HueVars

NextColour ==
    \/ \E o \in Orders, kv \in {":", ": "}, sep \in {",", ", ", " ", "  , ", ";"} :
          ParseColorParams(ParamText(Canonical(o, <<"h", "s", "l", "a">>), ": ", ", "),
                           ParamText(o, kv, sep))
    \/ \E x \in Malformed : ParseColorParams(x, x)
    \/ \E base \in BaseColours, mode \in {"RGB", "HSL"}, raw \in ParamValues,
          parsed \in BOOLEAN :
          CalculateColor(base, mode, raw, parsed)
    \/ \E r, g, b \in Channels : RoundTrip(<<r, g, b>>)
    \/ \E h, sx, lx \in OutOfRange : HslToRgb(h, sx, lx)
    \/ \E name \in {"Window", "Highlight"}, mode \in {"RGB", "HSL"}, raw \in ParamValues :
          ProcessQPalette(name, mode,
                          ParamText(<<<<"h", raw.h>>, <<"s", raw.s>>, <<"l", raw.l>>,
                                      <<"a", raw.a>>>>, ": ", ", "))
    \/ \E r, g, b \in OutOfRange : ProcessRgb(<<LNum(r), LNum(g), LNum(b)>>)
    \/ \E h, sx, lx \in OutOfRange :
          TransformStyleColors([form |-> "hsl", h |-> h, s |-> sx, l |-> lx, a |-> Q(1, 1)])

SpecColour == InitHue /\ [][NextColour]_vars


(***************************************************************************)
(* The two passes on stylesheets that hold several references to one       *)
(* palette colour, written in different ways.                              *)
(***************************************************************************)
\* A named reference as a placeholder, or attached to an image.
Named(composite, name, parens, ps) ==
    IF composite THEN Composite(UrlA, "QPalette", name, parens, ps)
    ELSE Placeholder(name, parens, ps)

\* A parameter text with l and a, and the text with h and s put before it.
WithHS(rest, hs) == IF hs = << >> THEN rest ELSE hs \o <<Sep(", ")>> \o rest

PairSheets ==
    \* two references that differ in h and s only
    {<<Named(c, "Window", TRUE, WithHS(rest, hs1)),
       Named(c, "Window", TRUE, WithHS(rest, hs2))>> :
        c \in BOOLEAN,
        rest \in {KV("l", ": ", Num(Q(3, 2))),
                  KV("a", ": ", Num(Q(1, 2))),
                  ParamText(<<<<"l", Q(26, 25)>>, <<"a", Q(4, 5)>>>>, ": ", ", ")},
        hs1 \in {<< >>, KV("h", ": ", Num(Q(850, 1)))},
        hs2 \in {KV("s", ": ", Num(Q(0, 1))),
                 ParamText(<<<<"h", Q(-2, 1)>>, <<"s", Q(5, 4)>>>>, ": ", ", "),
                 ParamText(<<<<"s", Q(3, 1)>>, <<"h", Q(1, 2)>>>>, ":", " ")}}
    \* Name, Name() and Name(h: 0, s: 1.0, l: 1.0, a: 1.0)
    \cup {<<Named(c, n, FALSE, << >>), Named(c, n, TRUE, << >>),
            Named(c, n, TRUE,
                  ParamText(<<<<"h", Q(0, 1)>>, <<"s", Q(1, 1)>>, <<"l", Q(1, 1)>>,
                              <<"a", Q(1, 1)>>>>, ": ", ", "))>> :
             c \in BOOLEAN, n \in {"Window", "Highlight"}}
    \* alpha near 1.0 and away from it
    \cup {<<Named(FALSE, "Window", TRUE, KV("a", ": ", Num(a))),
            Named(FALSE, "Highlight", TRUE,
                  ParamText(<<<<"h", Q(-2, 1)>>, <<"s", Q(5, 4)>>, <<"l", Q(26, 25)>>,
                              <<"a", a>>>>, ": ", ", "))>> :
             a \in {Q(1999, 2000), Q(499, 500), Q(4, 5), Q(3, 2), Q(0, 1)}}

SpecPairs == InitWith(PairSheets) /\ [][Next]_vars

(***************************************************************************)
(* The stylesheet imported several times in one process: importStylesheet  *)
(* runs the composite pass and then the placeholder pass on its result.    *)
(* probe keeps the text and the inputs of the import before.               *)
(***************************************************************************)
MaxRuns == 2

\* What went wrong in an import for a reason outside the program: nothing,
\* file.open returning False (line 565), or setStyleSheet raising (line 606).
Faults == {"none", "open", "apply"}

\* A faulty setPath, which stops after line 651.
setPath_only(e, path) == [e EXCEPT !.path = path]

\* StyleSheetLoader.setPath(path) and the toggleLoadOnStartup(self.useStartup)
\* it ends with (lines 645-655).
setPath(e, path) ==
    [e EXCEPT !.path = path,
              !.startupStyleSheet = IF e.useStartup THEN path ELSE NoPath]

\* StyleSheetLoader.toggleLoadOnStartup(isChecked), lines 645-648
toggleLoadOnStartup(e, isChecked) ==
    [e EXCEPT !.useStartup = isChecked,
              !.startupStyleSheet = IF isChecked THEN e.path ELSE NoPath]

\* Lines 590-618 of importStylesheet, the file read: r is what the composite
\* pass returned and p what the placeholder pass made of it.
ImportDone(path, mode, fault, r, p) ==
    /\ files' = r.fs
    /\ calls' = r.calls
    /\ before' = calls
    /\ out' = p.out                                     \* final_stylesheet
    /\ st' = p.st
    /\ raised' = (p.raised \/ fault = "apply")          \* lines 616-618, 627-629
    /\ base_path' = DirOf(path)                         \* line 591
    /\ op' = "importStylesheet"
    /\ inp' = stylesheet
    /\ probe' = [n |-> probe.n + 1, out |-> out, raised |-> raised,
                 base_path |-> base_path,
                 sources |-> IF probe.n = 0 THEN sources ELSE probe.now,
                 now |-> sources]
    /\ ext' = IF p.raised \/ fault = "apply"
              THEN [updateResPath(ext, searchInStyleSheetDir) EXCEPT !.result = "exception"]
              ELSE [setPath(updateResPath(ext, searchInStyleSheetDir), path)
                       EXCEPT !.result = "done"]            \* line 614
    /\ colorMode' = mode
    /\ UNCHANGED <<stylesheet, sources, palette, searchInStyleSheetDir>>

ImportPlaceholders(path, mode, fault, r) ==             \* line 597
    ImportDone(path, mode, fault, r, replace_placeholders(palette, mode, r.out))

ImportRead(path, mode, fault) ==                        \* line 594
    /\ probe.n < MaxRuns
    /\ ImportPlaceholders(path, mode, fault,
                          process_svg_urls(files, sources, palette, DirOf(path),
                                           searchInStyleSheetDir, mode, stylesheet))

\* An import that ends before the file is read, with the outcome result, and
\* after updateResPath when the path is not empty.
ImportFailed(mode, e, result) ==
    /\ ext' = [e EXCEPT !.result = result]
    /\ colorMode' = mode
    /\ UNCHANGED <<stylesheet, files, sources, palette, searchInStyleSheetDir, base_path,
                   op, inp, out, st, raised, calls, before, probe>>

\* StyleSheetLoader.importStylesheet(path) with the colour mode at mode.
ImportStylesheetWith(path, mode, fault) ==
    IF path = NoPath THEN ImportFailed(mode, ext, "no path")                \* lines 550-551
    ELSE IF path = MissingFile                                              \* lines 556-558
    THEN ImportFailed(mode, updateResPath(ext, searchInStyleSheetDir), "missing")
    ELSE IF path = ImageFile                                                \* lines 560-563
    THEN ImportFailed(mode, updateResPath(ext, searchInStyleSheetDir), "not text")
    ELSE IF fault = "open"                                                  \* lines 622-623
    THEN ImportFailed(mode, updateResPath(ext, searchInStyleSheetDir), "open failed")
    ELSE ImportRead(path, mode, fault)

\* importStylesheet of the stylesheet file in the directory bp.
ImportStylesheet(bp) ==
    \E path \in StyleFiles :
        /\ DirOf(path) = bp
        /\ ImportStylesheetWith(path, colorMode, "none")

NextImport ==
    \/ \E bp \in BaseDirs \cup BlockedDirs : ImportStylesheet(bp)
    \/ \E p \in {<<"images", "a">>} : EditSource(p)

SpecImport == Init /\ [][NextImport]_vars

(***************************************************************************)
(* The extension in use: stylesheets are imported, load-on-startup is      *)
(* toggled, the colour mode is changed in the dialog and the application   *)
(* palette changes.                                                        *)
(***************************************************************************)
\* The application palette after a change of the Window colour.
Palette2 == [Palette1 EXCEPT !["Window"] = <<100, 100, 200>>]

ExtSheets ==
    {<<Composite(UrlA, "QPalette", "Window", TRUE, KV("l", ": ", Num(Q(3, 2)))),
       Placeholder("Highlight", FALSE, << >>)>>,
     <<Composite(UrlA, "QPalette", "Highlight", FALSE, << >>)>>}

\* The stylesheet files the user loads.
LoadedFiles == {<<"theme", "x.qss">>, <<"other", "y.qss">>}

\* showImportDialog and lineEditImport: importStylesheet of a chosen or typed
\* path (lines 531-536).
ImportFile(path, fault) == ImportStylesheetWith(path, colorMode, fault)

\* A setter called from the dialog: no import ran, so result is "none".
SettingsChanged(e) ==
    /\ ext' = [e EXCEPT !.result = "none"]
    /\ UNCHANGED <<stylesheet, files, sources, palette, colorMode, searchInStyleSheetDir,
                   base_path, op, inp, out, st, raised, calls, before, probe>>

SetPath(path) == SettingsChanged(setPath(ext, path))

ToggleLoadOnStartup(isChecked) == SettingsChanged(toggleLoadOnStartup(ext, isChecked))

\* StyleSheetLoader.setColorMode(mode), lines 702-707: the mode is set and,
\* if a stylesheet is loaded, it is imported again (the path field shows
\* self.path).
SetColorMode(mode) ==
    /\ mode # colorMode
    /\ ImportStylesheetWith(ext.path, mode, "none")

\* The application palette changes; get_palette_rgb_values reads it anew in
\* every pass.
PaletteChanged(pal) ==
    /\ pal # palette
    /\ palette' = pal
    /\ UNCHANGED <<stylesheet, files, sources, colorMode, searchInStyleSheetDir,
                   base_path, op, inp, out, st, raised, calls, before, probe, ext>>

InitExt ==
    /\ InitFor(ExtSheets, {NoPath, <<"theme", "x.qss">>})
    /\ colorMode = "HSL"
    /\ Len(stylesheet) = 2

NextExt ==
    \/ \E path \in LoadedFiles \cup {MissingFile, ImageFile, NoPath}, fault \in Faults :
          ImportFile(path, fault)
    \/ \E path \in LoadedFiles : SetPath(path)
    \/ \E isChecked \in BOOLEAN : ToggleLoadOnStartup(isChecked)

SpecExt == InitExt /\ [][NextExt]_vars

\* A stylesheet is loaded; it is imported again, by hand or by a change of the
\* colour mode, and the palette changes in between.
InitChange == InitFor(ExtSheets, {<<"theme", "x.qss">>})

NextChange ==
    \/ \E path \in LoadedFiles : ImportFile(path, "none")
    \/ \E mode \in {"HSL", "RGB"} : SetColorMode(mode)
    \/ \E pal \in {Palette1, Palette2} : PaletteChanged(pal)

SpecChange == InitChange /\ [][NextChange]_vars

(***************************************************************************)
(* Two callers of get_or_process_svg on one cache directory.  A call is    *)
(* the steps the code takes one after the other: the existence test of     *)
(* line 219, process_svg up to the opening of the output file (lines       *)
(* 242-256: tree.write truncates the file when it opens it), the end of    *)
(* the write, and the return of the path (lines 222-227).  probe holds     *)
(* where each caller is; serialized says whether the callers take turns.   *)
(***************************************************************************)
Callers == {1, 2}

RaceRequests ==
    {<<p, c>> : p \in {PathOf(UrlA), PathOf(UrlMissing)},
                c \in {d \in DirectColours : d[1] # "Nope"}}

NoRequest == << >>

\* The output path of caller c's request.
RaceOutput(c) ==
    OutputPath("theme", probe.req[c][1], probe.req[c][2][1], probe.req[c][2][2])

\* process_svg for caller c's request, on the files as they are now.
RaceProcessSvg(c) ==
    process_svg(files, sources, palette, SrcOf(probe.req[c][1]), RaceOutput(c),
                probe.req[c][2][1], probe.req[c][2][2])

RaceFrame ==
    UNCHANGED <<stylesheet, sources, palette, colorMode, searchInStyleSheetDir,
                base_path, op, inp, out, st, raised, calls, before, ext>>

\* A caller enters get_or_process_svg; with serialized calls only when no
\* other call is in flight.
RaceCall(c, req) ==
    /\ probe.pc[c] = "idle"
    /\ probe.serialized => \A d \in Callers : probe.pc[d] = "idle"
    /\ probe' = [probe EXCEPT !.pc[c] = "check", !.req[c] = req]
    /\ UNCHANGED files
    /\ RaceFrame

\* Line 219: the existence test.
RaceCheck(c) ==
    /\ probe.pc[c] = "check"
    /\ probe' = [probe EXCEPT !.pc[c] = IF cache_miss(files, RaceOutput(c))
                                         THEN "process_svg" ELSE "return"]
    /\ UNCHANGED files
    /\ RaceFrame

\* Lines 242-256, to the opening of the output file, which leaves it there
\* and empty; an image that does not parse raises (lines 258-260) and ends
\* the call.
RaceProcessed(c, r) ==
    /\ probe.pc[c] = "process_svg"
    /\ IF r.ok
       THEN /\ files' = [p \in {RaceOutput(c)} |->
                            [src |-> SrcOf(probe.req[c][1]), ver |-> 0, style |-> << >>]]
                        @@ files
            /\ probe' = [probe EXCEPT
                            !.pc[c] = "write",
                            !.ran = @ \cup {RaceOutput(c)},
                            !.redundant = @ \/ RaceOutput(c) \in probe.ran]
       ELSE /\ probe' = [probe EXCEPT !.pc[c] = "idle"]
            /\ UNCHANGED files
    /\ RaceFrame

RaceProcess(c) == RaceProcessed(c, RaceProcessSvg(c))

\* Line 256 ends: the file is complete.
RaceWritten(c) ==
    /\ probe.pc[c] = "write"
    /\ files' = RaceProcessSvg(c).fs
    /\ probe' = [probe EXCEPT !.pc[c] = "return"]
    /\ RaceFrame

\* Lines 222-227: the relative path is handed to the caller, whatever the
\* state of the file.
RaceReturn(c) ==
    /\ probe.pc[c] = "return"
    /\ probe' = [probe EXCEPT
                    !.pc[c] = "idle",
                    !.partial = @ \/ \E d \in Callers \ {c} :
                                        /\ probe.pc[d] = "write"
                                        /\ RaceOutput(d) = RaceOutput(c)]
    /\ UNCHANGED files
    /\ RaceFrame

InitRace ==
    /\ InitState({<< >>}, {NoPath})
    /\ colorMode = "HSL"
    /\ searchInStyleSheetDir
    /\ probe \in {[serialized |-> b,
                   pc |-> [c \in Callers |-> "idle"],
                   req |-> [c \in Callers |-> rq],
                   ran |-> {}, redundant |-> FALSE, partial |-> FALSE] :
                  b \in BOOLEAN, rq \in {NoRequest}}

NextRace ==
    \/ \E c \in Callers, req \in RaceRequests : RaceCall(c, req)
    \/ \E c \in Callers : RaceCheck(c)
    \/ \E c \in Callers : RaceProcess(c)
    \/ \E c \in Callers : RaceWritten(c)
    \/ \E c \in Callers : RaceReturn(c)

SpecRace == InitRace /\ [][NextRace]_vars

(***************************************************************************)
(* Properties.                                                             *)
(***************************************************************************)
\* The calls of the last two operations that made any, oldest first.
Requests == before \o calls

\* Two calls with the same (source path, palette colour, colour params).
SameRequest(c, d) == c.at = d.at /\ c.svg = d.svg /\ c.pc = d.pc /\ c.cp = d.cp

\* A number in [0, 1].
InUnit(a) == FGe(a, I(0)) /\ FLe(a, I(1))

\* The colour the transform paints for colour params given without a base
\* colour, as the passes give them; two params resolve to the same colour
\* when the RGB triples are equal and the alphas are equal as numbers.
SameColour(p, q) ==
    LET x == FinalColour(None, p)
        y == FinalColour(None, q)
    IN  ~IsErr(x) /\ ~IsErr(y) /\ x[1] = y[1] /\ FEq(x[2], y[2])

\* An occurrence with a base-colour name that is not a key of the palette.
UnknownName(it) ==
    /\ it.kind = "QPalette" \/ (it.kind = "svg" /\ it.fn = "QPalette")
    /\ it.name \notin DOMAIN palette

\* C1: when get_or_process_svg is called with the same (source path, palette
\* colour, colour params) as the call before it and that call succeeded, the
\* later call succeeds with the same output path, does not run process_svg
\* and does not write the file; process_svg ran in the earlier call exactly
\* when the file was not there yet, so it runs once over the two.
C1_CacheIdempotent ==
    \A i \in 1..Len(before), j \in 1..Len(calls) :
        (SameRequest(before[i], calls[j]) /\ before[i].ok)
        => /\ calls[j].ok
           /\ calls[j].ret = before[i].ret
           /\ ~calls[j].ran
           /\ ~calls[j].wrote
           /\ before[i].ran = ~before[i].existed

\* Two calls with the same arguments have been made, the first of which ran
\* the transform and the second of which found the file.
C1_Witness ==
    \E i \in 1..Len(before), j \in 1..Len(calls) :
        /\ SameRequest(before[i], calls[j])
        /\ before[i].ok /\ before[i].ran /\ before[i].wrote
        /\ calls[j].existed

\* C2: two image references of one pass that name the same source image and
\* whose colour expressions resolve to the same RGB triple and the same alpha
\* get the same output path (the same cache key, one recoloured file).
C2_SameColourSameKey ==
    \A i \in 1..Len(calls), j \in 1..Len(calls) :
        (/\ calls[i].ok /\ calls[j].ok
         /\ calls[i].svg = calls[j].svg
         /\ SameColour(calls[i].cp, calls[j].cp))
        => calls[i].ret = calls[j].ret

\* C3: two successful requests with the same colour transform and different
\* source paths never get the same output path, and the file a request
\* returns was derived from the source the request names.
C3_OneCopyPerSource ==
    /\ \A i \in 1..Len(Requests), j \in 1..Len(Requests) :
          (/\ Requests[i].ok /\ Requests[j].ok
           /\ Requests[i].pc = Requests[j].pc /\ Requests[i].cp = Requests[j].cp
           /\ SrcOf(Requests[i].svg) # SrcOf(Requests[j].svg))
          => Requests[i].ret # Requests[j].ret
    /\ \A i \in 1..Len(calls) :
          calls[i].ok => files[calls[i].out].src = SrcOf(calls[i].svg)

\* C4: no step rewrites or deletes a cache file that exists, and a call that
\* finds a file at its output path returns that path without running
\* process_svg (which is what reads the source) and without writing.
C4_ExistenceOnly ==
    [][/\ \A p \in DOMAIN files : p \in DOMAIN files' /\ files'[p] = files[p]
       /\ \A i \in 1..Len(calls') :
             calls'[i].existed
             => /\ calls'[i].ok /\ ~calls'[i].ran /\ ~calls'[i].wrote
                /\ calls'[i].ret.hash = calls'[i].out.hash
                /\ calls'[i].ret.base = calls'[i].out.base]_vars

\* A call has found a cache file that was made from an older version of the
\* source image than the one now on disk.
C4_Witness ==
    \E i \in 1..Len(calls) :
        /\ calls[i].existed /\ calls[i].ok
        /\ calls[i].out \in DOMAIN files
        /\ files[calls[i].out].ver < sources[files[calls[i].out].src].ver

\* C5: after the composite pass, a match whose processing failed stands in
\* the output exactly as it stood in the input.
C5_FailedMatchUnchanged ==
    op = "process_svg_urls"
    => \A i \in 1..Len(inp) : st[i] = "failed" => out[i] = inp[i]

\* C6: neither pass raises; each returns a text with every item of its
\* input, and the occurrences around another one are resolved whatever that
\* one is.
C6_NeverAborts ==
    /\ op = "process_svg_urls"
       => /\ ~raised
          /\ Len(out) = Len(inp)
          /\ \A i \in 1..Len(inp) : inp[i] = GoodComposite => st[i] = "ok"
    /\ op = "replace_placeholders"
       => /\ ~raised
          /\ Len(out) = Len(inp)
          /\ \A i \in 1..Len(inp) : inp[i] = GoodPlaceholder => st[i] = "ok"

\* C7: in both passes an occurrence whose base-colour name is not in the
\* palette comes out as it went in.
C7_UnknownNameUnchanged ==
    (op \in {"process_svg_urls", "replace_placeholders"} /\ ~raised)
    => \A i \in 1..Len(inp) : UnknownName(inp[i]) => out[i] = inp[i]

\* C8: the alpha lies in [0, 1] wherever it arrives: in the colour params
\* that make the cache key, in the -opacity declarations of the recoloured
\* images, and in the literals of the output text.
C8_AlphaClipped ==
    /\ \A i \in 1..Len(calls) : InUnit(calls[i].cp.a)
    /\ \A p \in DOMAIN files : \A k \in 1..Len(files[p].style) :
          "num" \in DOMAIN files[p].style[k].value
          => InUnit(files[p].style[k].value.num)
    /\ \A i \in 1..Len(out) :
          out[i].kind \in {"rgba", "hsla"} => InUnit(out[i].a)

\* C9: normalize_hue returns a value in [0, 360); -10 gives 350, -180 gives
\* 180 and 720 gives 0.
C9_HueInRange ==
    probe.n >= 1
    => /\ IsInt(probe.y)
       /\ 0 <= probe.y[1] /\ probe.y[1] < 360
       /\ probe.x = I(-10) => probe.y = I(350)
       /\ probe.x = I(-180) => probe.y = I(180)
       /\ probe.x = I(720) => probe.y = I(0)

\* C10: normalize_hue applied to its own result returns that result.
C10_HueIdempotent == probe.n = 2 => probe.yy = probe.y

\* The <<key, value>> pairs written in a parameter text.
PairsOf(ps) ==
    {<<ps[i].s, ps[i + 2].v>> :
        i \in {j \in 1..(Len(ps) - 2) : ps[j].t = "key" /\ ps[j + 2].t = "num"}}

\* A text of key/value pairs with distinct keys: key, colon, decimal number,
\* and a separator without a colon between one pair and the next.
WellFormed(ps) ==
    /\ Len(ps) % 4 = 3
    /\ \A i \in 1..Len(ps) :
          CASE i % 4 = 1 -> ps[i].t = "key"
            [] i % 4 = 2 -> ps[i].t = "sep" /\ StartsColon(ps[i].s)
            [] i % 4 = 3 -> ps[i].t = "num" /\ ps[i].s = "dec"
            [] OTHER -> ps[i].t = "sep" /\ ~StartsColon(ps[i].s)
    /\ \A i, j \in 1..Len(ps) :
          (ps[i].t = "key" /\ ps[j].t = "key" /\ i # j) => ps[i].s # ps[j].s

\* C11: parse_color_params gives the same parameter map for every ordering of
\* the key/value pairs and every separator between them: two texts that
\* write the same values for the same distinct keys parse to the same map.
C11_OrderIndependent ==
    (/\ probe.n = 1
     /\ probe.fn = "parse_color_params"
     /\ WellFormed(probe.x) /\ WellFormed(probe.alt)
     /\ PairsOf(probe.x) = PairsOf(probe.alt))
    => probe.y = probe.yy

\* The four pairs in another order and with another separator, parsed to the
\* values written and not to the defaults.
C11_Witness ==
    /\ probe.n = 1
    /\ probe.fn = "parse_color_params"
    /\ WellFormed(probe.x) /\ WellFormed(probe.alt)
    /\ PairsOf(probe.x) = PairsOf(probe.alt)
    /\ Len(probe.x) = 15
    /\ probe.alt[1] = Key("s") /\ probe.alt[4] = Sep(";")
    /\ probe.y = probe.yy
    /\ probe.y.s = Q(7, 5) /\ probe.y.l = Q(26, 25) /\ probe.y.a = Q(4, 5)

\* What a value written for key k is stored as (lines 115-120).
Applied(k, v) ==
    IF k = "h" THEN normalize_hue(v)
    ELSE IF k = "a" THEN clip_value(v, I(0), I(1))
    ELSE clip_value(v, I(0), None)

\* The places of a text where key k is followed by a value that can be stored.
ValuedAt(ps, k) ==
    {i \in 1..(Len(ps) - 2) :
        /\ ps[i] = Key(k)
        /\ ps[i + 1].t = "sep"
        /\ ps[i + 2].t = "num"
        /\ ~IsErr(Applied(k, ps[i + 2].v))}

\* The value of key k: the one written right after the key, or the default.
ExpectedParam(ps, k) ==
    IF ValuedAt(ps, k) = {} THEN DefaultParams[k]
    ELSE Applied(k, ps[(CHOOSE i \in ValuedAt(ps, k) :
                           \A j \in ValuedAt(ps, k) : j <= i) + 2].v)

\* C12: parse_color_params never fails and returns all four keys; a key whose
\* value token is missing or malformed keeps its default, no later token is
\* assigned to it, and the well-formed parameters of the text are applied.
C12_ParserKeepsDefaults ==
    (probe.n = 1 /\ probe.fn = "parse_color_params")
    => /\ DOMAIN probe.y = Keys
       /\ \A k \in Keys : probe.y[k] = ExpectedParam(probe.x, k)

\* The product v * l clamped to [0, 255], as an integer channel.
ClampedProduct(v, l) == PyInt(PyMax(I(0), PyMin(I(255), FMul(I(v), l))))[1]

\* C13: in RGB mode calculate_color returns, for each channel v of the base
\* colour, the product v * l clamped to [0, 255]; with l = 1.0 the base
\* colour comes back unchanged.
C13_RgbModeProduct ==
    (probe.n = 1 /\ probe.fn = "calculate_color" /\ probe.mode = "RGB")
    => /\ ~IsErr(probe.res)
       /\ \A i \in 1..3 : probe.res[1][i] = ClampedProduct(probe.base[i], probe.arg.l)
       /\ probe.arg.l = Q(1, 1) => probe.res[1] = probe.base

\* hsl_to_rgb of the hue (base hue + h) mod 360 and of the base saturation
\* and lightness multiplied by s and l and clamped to [0, 100].
ShiftedColour(hsl, h, sx, lx) ==
    hsl_to_rgb(PyMod(F(FAdd(hsl[1], h)), 360),
               clip_value(FMul(hsl[2], sx), I(0), I(100)),
               clip_value(FMul(hsl[3], lx), I(0), I(100)))

\* C15: in HSL mode the colour calculate_color hands back for parameters that
\* come from the parser is hsl_to_rgb of hue (base hue + h) mod 360,
\* saturation clamp(base saturation * s, 0, 100) and lightness
\* clamp(base lightness * l, 0, 100), for every h written.
C15_HslModeShift ==
    (probe.n = 1 /\ probe.fn = "calculate_color" /\ probe.mode = "HSL" /\ probe.parsed)
    => /\ ~IsErr(probe.res)
       /\ probe.res[1] = ShiftedColour(rgb_to_hsl(probe.base), probe.raw.h, probe.raw.s,
                                       probe.raw.l)

\* C16: for every colour c with integer channels in [0, 255],
\* hsl_to_rgb(rgb_to_hsl(c)) equals c within 1 on each channel; for an
\* achromatic c rgb_to_hsl returns hue 0 and saturation 0 and does not fail.
C16_RoundTrip ==
    (probe.n = 1 /\ probe.fn = "round_trip")
    => /\ ~IsErr(probe.y) /\ ~IsErr(probe.res)
       /\ \A i \in 1..3 : Abs(probe.res[i] - probe.x[i]) <= 1
       /\ (probe.x[1] = probe.x[2] /\ probe.x[2] = probe.x[3])
          => FEq(probe.y[1], I(0)) /\ FEq(probe.y[2], I(0))

\* A colour whose hue is not a whole number, converted there and back.
C16_Witness ==
    /\ probe.n = 1
    /\ probe.fn = "round_trip"
    /\ probe.x = <<200, 100, 51>>
    /\ ~IsInt(probe.y[1]) /\ probe.y[1][2] # 1
    /\ probe.res = probe.x

\* Three integer components in [0, 255].
ColourTriple(t) == Len(t) = 3 /\ \A i \in 1..3 : t[i] \in 0..255

\* C17: every resolved colour triple has three integer components in
\* [0, 255]: the triples calculate_color and hsl_to_rgb return and the ones
\* process_qpalette and process_rgb place in the colour params, for every
\* parameter and literal value, in and out of range.
C17_ChannelsInRange ==
    probe.n = 1
    => /\ (probe.fn = "calculate_color" /\ ~IsErr(probe.res)) => ColourTriple(probe.res[1])
       /\ (probe.fn = "hsl_to_rgb" /\ ~IsErr(probe.res)) => ColourTriple(probe.res)
       /\ probe.fn \in {"process_qpalette", "process_rgb"}
          => \A i \in 1..Len(probe.res) : ColourTriple(probe.res[i].rgb)

\* A literal with channels above and below the range, clipped to it.
C17_Witness ==
    /\ probe.n = 1
    /\ probe.fn = "process_rgb"
    /\ probe.x[1].v = Q(1000, 1) /\ probe.x[2].v = Q(-400, 1) /\ probe.x[3].v = Q(721, 2)
    /\ Len(probe.res) = 1 /\ probe.res[1].rgb = <<255, 0, 255>>

\* The pairs of a parameter text that set l or a.
LightnessAlpha(ps) == {p \in PairsOf(ps) : p[1] \in {"l", "a"}}

\* Two references to one palette colour that the pass at hand resolves (the
\* composite pass those attached to an image, the placeholder pass the bare
\* ones), whose parameter texts differ in the h and s pairs only.
DifferInHS(x, y) ==
    /\ x.kind = (IF op = "process_svg_urls" THEN "svg" ELSE "QPalette")
    /\ y.kind = x.kind
    /\ x.parens /\ y.parens
    /\ [x EXCEPT !.params = << >>] = [y EXCEPT !.params = << >>]
    /\ WellFormed(x.params) /\ WellFormed(y.params)
    /\ LightnessAlpha(x.params) = LightnessAlpha(y.params)

AllDefault ==
    ParamText(<<<<"h", Q(0, 1)>>, <<"s", Q(1, 1)>>, <<"l", Q(1, 1)>>,
                <<"a", Q(1, 1)>>>>, ": ", ", ")

\* Two references to one palette colour that the pass at hand resolves, each
\* written as Name, as Name() or with every parameter at its default.
BothDefault(x, y) ==
    /\ x.kind = (IF op = "process_svg_urls" THEN "svg" ELSE "QPalette")
    /\ y.kind = x.kind
    /\ [x EXCEPT !.params = << >>, !.parens = TRUE]
       = [y EXCEPT !.params = << >>, !.parens = TRUE]
    /\ x.params \in {<< >>, AllDefault} /\ y.params \in {<< >>, AllDefault}
    /\ (~x.parens => x.params = << >>) /\ (~y.parens => y.params = << >>)

\* C19: Name, Name() and Name with all-default parameters are equivalent: the
\* same placeholder literal and, as composites, the same colour and cache
\* output path, in either colour mode.
C19_DefaultFormsEquivalent ==
    op \in {"process_svg_urls", "replace_placeholders"}
    => \A i, j \in 1..Len(inp) : BothDefault(inp[i], inp[j]) => out[i] = out[j]

\* The colour and alpha a placeholder resolves to, <<rgb, alpha>>.
ResolvedWith(it, params) ==
    calculate_color(palette[it.name], colorMode, params.h, params.s, params.l, params.a)

ParamsOf(it) == IF it.parens THEN parse_color_params(it.params) ELSE DefaultParams

\* Alpha within 0.001 of 1.0.
NearOne(alpha) == FLt(FAbs(FSub(alpha, Q(1, 1))), Q(1, 1000))

\* h, s and l of a colour, truncated to integers.
Truncated(hsl) == <<PyInt(hsl[1])[1], PyInt(hsl[2])[1], PyInt(hsl[3])[1]>>

\* The literal of the mode for a resolved colour: rgb or rgba with the
\* channels, hsl or hsla with the truncated h, s and l; alpha to two decimals.
IsLiteralOf(lit, mode, rgb, alpha) ==
    /\ mode = "RGB" => lit.kind = (IF NearOne(alpha) THEN "rgb" ELSE "rgba") /\ lit.c = rgb
    /\ mode = "HSL" => /\ lit.kind = (IF NearOne(alpha) THEN "hsl" ELSE "hsla")
                       /\ lit.c = Truncated(rgb_to_hsl(rgb))
    /\ lit.a = (IF NearOne(alpha) THEN None ELSE Fmt(alpha, 100))

\* C20: the literal emitted for a resolved placeholder depends only on the
\* colour mode: rgb(r,g,b) in RGB mode when alpha is within 0.001 of 1.0 and
\* rgba(r,g,b,a) otherwise, hsl(h,s%,l%) and hsla(h,s%,l%,a) in HSL mode with
\* h, s and l truncated to integers; no other form for a known base name.
C20_LiteralByMode ==
    (op = "replace_placeholders" /\ ~raised)
    => \A i \in 1..Len(inp) :
          (inp[i].kind = "QPalette" /\ inp[i].name \in DOMAIN palette)
          => /\ st[i] = "ok"
             /\ \A params \in {ParamsOf(inp[i])} :
                   \A r \in {ResolvedWith(inp[i], params)} :
                      IsLiteralOf(out[i], colorMode, r[1], r[2])

\* a: 0.9995 written as hsl(20, 60%, 49%) next to a: 0.998 written as
\* hsla(20, 60%, 49%, 1.00), and the same in RGB mode.
C20_Witness ==
    /\ op = "replace_placeholders" /\ ~raised
    /\ Len(inp) = 2
    /\ inp[1] = Placeholder("Window", TRUE, KV("a", ": ", Num(Q(1999, 2000))))
    /\ colorMode = "HSL"
    /\ out[1] = [kind |-> "hsl", c |-> <<20, 60, 49>>, a |-> None]
    /\ out[2] = [kind |-> "hsl", c |-> <<207, 100, 62>>, a |-> None]

\* The import at hand is a repetition of the one before: the same base
\* directory and the source images as they were then (the stylesheet, the
\* palette, the colour mode and the prefix setting never change).
Repeated ==
    /\ op = "importStylesheet"
    /\ probe.n >= 2
    /\ probe.base_path = base_path
    /\ probe.sources = probe.now

\* C18: importing the same stylesheet twice in one process, with the same
\* palette, colour mode, prefix setting and base directory and unchanged
\* source images, gives the same final text both times, and the second import
\* runs no recolouring transform for an image file the first one produced.
C18_Deterministic ==
    Repeated
    => /\ out = probe.out
       /\ raised = probe.raised
       /\ \A i \in 1..Len(before), j \in 1..Len(calls) :
             (before[i].ok /\ before[i].out = calls[j].out) => ~calls[j].ran

\* A second import that found the image file the first one had written.
C18_Witness ==
    /\ Repeated
    /\ ~raised
    /\ \E i \in 1..Len(before), j \in 1..Len(calls) :
          /\ before[i].ran /\ before[i].wrote
          /\ before[i].out = calls[j].out
          /\ calls[j].existed /\ calls[j].ok
    /\ \E i \in 1..Len(out) : out[i].kind = "url" /\ out[i].dir = ".processed_svg"
    /\ \E i \in 1..Len(out) : out[i].kind \in {"rgb", "rgba", "hsl", "hsla"}

\* The two resolutions of one expression agree: cp is the colour params the
\* composite path hands to the cache, r the <<rgb, alpha>> of the
\* placeholder path.
SameResolution(cp, r) ==
    /\ ~IsErr(r)
    /\ cp.rgb = r[1]
    /\ FEq(cp.a, r[2])

\* C25: the two passes resolve a named-palette expression to the same colour:
\* the RGB triple and alpha of parse_color_params followed by calculate_color
\* equal those process_qpalette computes for the same expression text.
C25_PassesAgree ==
    (probe.n = 1 /\ probe.fn = "process_qpalette")
    => /\ Len(probe.res) = 1
       /\ \A params \in {parse_color_params(probe.x[2])} :
             \A r \in {calculate_color(palette[probe.x[1]], probe.mode, params.h,
                                       params.s, params.l, params.a)} :
                SameResolution(probe.res[1], r)

\* A declaration of the source style that the transform is not to recolour:
\* any but a fill, color or stroke whose value is not "none".
NotRecoloured(d) == ~(d.colon /\ d.name \in ColourNames /\ ~IsNoneValue(d.value))

\* A declaration of a rewritten style that stands in the source style and is
\* not to be recoloured.
FromSource(d) ==
    \E i \in 1..Len(SourceStyle) : SourceStyle[i] = d /\ NotRecoloured(SourceStyle[i])

\* C24: the transform changes only fill, color and stroke declarations whose
\* value is not "none" (and appends their -opacity declaration); every other
\* declaration of the source style, and every fill, color or stroke with the
\* value "none", stands in the result unchanged and in its original order.
C24_TransformFrame ==
    \A p \in DOMAIN files :
        SelectSeq(files[p].style, FromSource) = SelectSeq(SourceStyle, NotRecoloured)

\* A hue in [0, 360) with a saturation and a lightness in [0, 100].
Normalised(hsl) ==
    /\ ~IsErr(hsl[1]) => FGe(hsl[1], I(0)) /\ FLt(hsl[1], I(360))
    /\ FGe(hsl[2], I(0)) /\ FLe(hsl[2], I(100))
    /\ FGe(hsl[3], I(0)) /\ FLe(hsl[3], I(100))

\* C22: every hue handed to hsl_to_rgb is in [0, 360) and every saturation
\* and lightness in [0, 100], on the three call paths: calculate_color,
\* process_qpalette in HSL mode and transform_style_colors for hsl literals.
C22_HslNormalised ==
    /\ (probe.n = 1 /\ probe.fn = "calculate_color" /\ probe.mode = "HSL")
       => Normalised(HslOfCalculateColor(rgb_to_hsl(probe.base), probe.arg.h,
                                         probe.arg.s, probe.arg.l))
    /\ (probe.n = 1 /\ probe.fn = "process_qpalette" /\ probe.mode = "HSL")
       => Normalised(HslOfQPalette(rgb_to_hsl(palette[probe.x[1]]),
                                   FindParams(probe.x[2], 1, EmptyDict)))
    /\ (probe.n = 1 /\ probe.fn = "transform_style_colors")
       => Normalised(HslOfStyle(probe.x))

\* C23: in every import the composite pass finishes before the placeholder
\* pass starts and the placeholder pass substitutes only what the composite
\* pass left, so the final text never holds an image reference followed by a
\* substituted colour literal (url(...svg).rgb(...) or url(...svg).hsl(...)).
C23_NoLiteralAfterImage ==
    (op = "importStylesheet" /\ ~raised)
    => \A i \in 1..Len(out) : out[i].kind # "svgcolour"

\* A rewritten style every recoloured declaration of which has the colour rgb.
RecolouredWith(style, rgb) ==
    /\ \E k \in 1..Len(style) : "rgb" \in DOMAIN style[k].value
    /\ \A k \in 1..Len(style) :
          "rgb" \in DOMAIN style[k].value => style[k].value.rgb = rgb

\* The i-th composite of the stylesheet was rewritten by the import before and
\* by this one, in the same directory, and resolved to another colour or
\* alpha this time.
ResolvedAnew(i) ==
    /\ before[i].ok /\ calls[i].ok
    /\ before[i].at = calls[i].at /\ before[i].svg = calls[i].svg
    /\ (before[i].cp.rgb # calls[i].cp.rgb \/ ~FEq(before[i].cp.a, calls[i].cp.a))

\* C28: no stale colour after a palette or mode change: when a named-palette
\* composite resolves to a different RGB triple or alpha in the second of two
\* rewrites, that rewrite does not return the cache file of the first but a
\* path whose file was recoloured with the newly resolved colour.
C28_NoStaleColour ==
    (op = "importStylesheet" /\ Len(before) = Len(calls))
    => \A i \in 1..Len(calls) :
          ResolvedAnew(i)
          => /\ calls[i].ret # before[i].ret
             /\ calls[i].out \in DOMAIN files
             /\ RecolouredWith(files[calls[i].out].style, calls[i].cp.rgb)

\* After a change of the palette and after a change of the mode, a composite
\* resolved to another colour and the transform ran for it.
C28_Witness ==
    /\ op = "importStylesheet" /\ Len(before) = Len(calls)
    /\ \E i \in 1..Len(calls) :
          /\ ResolvedAnew(i)
          /\ calls[i].ran /\ calls[i].wrote
          /\ before[i].cp.rgb = <<255, 150, 75>>
          /\ before[i].out \in DOMAIN files

\* The outcomes of an importStylesheet call that did not load the file.
FailedOutcomes == {"no path", "missing", "not text", "open failed", "exception"}

\* startupStyleSheet is path when useStartup is set and the empty path when
\* it is not.
StartupFollowsPath ==
    ext.startupStyleSheet = (IF ext.useStartup THEN ext.path ELSE NoPath)

\* A step that is a failing importStylesheet call leaves the three fields as
\* they were.
FailedImportFrame ==
    ext'.result \in FailedOutcomes
    => /\ ext'.path = ext.path
       /\ ext'.useStartup = ext.useStartup
       /\ ext'.startupStyleSheet = ext.startupStyleSheet

\* C27: after construction and after every sequence of setPath,
\* toggleLoadOnStartup and importStylesheet calls, startupStyleSheet equals
\* path when useStartup is true and is empty when it is false; and a failing
\* importStylesheet call (empty path, missing file, non-text file, open
\* failure, exception while processing or applying) leaves path, useStartup
\* and startupStyleSheet unchanged.
C27_StartupSetting == []StartupFollowsPath /\ [][FailedImportFrame]_vars

\* With load on startup checked, an import of a file in another directory
\* than the loaded one raised while the stylesheet was applied.
C27_Witness ==
    /\ ext.result = "exception"
    /\ ext.useStartup
    /\ ext.path # NoPath
    /\ base_path # DirOf(ext.path)
    /\ ext.startupStyleSheet = ext.path

\* C26: after a successful import with the stylesheet folder used as
\* resource path, the search path registered for the resource prefix is the
\* directory of the stylesheet just imported, for every sequence of imports
\* of different files and whether or not load on startup is checked.
C26_SearchPathOfImported ==
    (ext.result = "done" /\ searchInStyleSheetDir)
    => ext.searchPaths = {DirOf(ext.path)}

\* C21: the existence test and the creation of the cache file are not one
\* atomic step: two concurrent callers with the same cache key can both find
\* the file absent and both run the transform, and one can be handed the
\* output path while the other's write of that file is incomplete; when the
\* calls are serialized neither happens.
C21_SerializedNoRace ==
    probe.serialized => ~probe.redundant /\ ~probe.partial

\* Without serialization the transform ran twice for one output path and a
\* caller was handed a path whose file another caller was still writing.
C21_Witness ==
    /\ ~probe.serialized
    /\ probe.redundant
    /\ probe.partial

====
